---- MODULE Spec2Model ----
(***************************************************************************)
(* A1349: EEVDF extended for heterogeneous processors.                     *)
(*                                                                         *)
(* The in-kernel scheduling policy (scx_eevdf.bpf.c: the callbacks         *)
(* select_cpu, enqueue, dispatch, running, stopping, set_weight, enable,   *)
(* disable, init) and the userspace agent (scx_eevdf.c) that refreshes the *)
(* per-CPU capacities and max_capacity in the shared maps.                 *)
(*                                                                         *)
(* Unsigned 64-bit quantities are modelled as WordBits-bit words: every    *)
(* cast, wrap-around and saturation of the C code is kept, at a width the  *)
(* model checker can enumerate.  SCX_SLICE_DFL (20 ms in the kernel) is    *)
(* scaled down likewise.                                                   *)
(***************************************************************************)
EXTENDS Integers, Sequences, FiniteSets, TLC

(* ------------------------------ bounds -------------------------------- *)

\* Width of the model's "u64" word (vtime_now, total_weight, dsq_vtime).
WordBits == 24

\* The runtime's default slice, in model time units.
SCX_SLICE_DFL == 8

\* How many handler invocations one run holds.
MaxEvents == 7

\* How many times the capacity source changes in one run.
MaxSysfsChanges == 1

\* How many handler invocations follow a scenario's starting state.
ScenEvents == 1

\* How many steps of its refresh passes and main loop one run of the agent
\* holds before its exit is requested.
MainEvents == 12

Tasks == {"A", "B"}

CPUs == {0, 1}

\* Weights the runtime hands out (0 is the malformed weight that is read as 1).
Weights == {0, 1, 3}

\* Remaining-slice values the runtime reports at stopping.
SliceLeft == {0, SCX_SLICE_DFL \div 2}

\* Capacities the agent reads for a CPU: the number in its cpu_capacity file
\* (any u32, 0 included), or the default 1024 when the file is missing or
\* holds no number.
CapValues == {0, 512, 1024}

\* The capacity table the scheduler starts with: cpu 0 big, cpu 1 little.
CapTables == {[c \in CPUs |-> IF c = 0 THEN 1024 ELSE 512]}

(* ------------------------- program constants -------------------------- *)

CAPACITY_SCALE == 1024

EEVDF_DSQ_BIG == 1

EEVDF_DSQ_LITTLE == 2

BIG_CAP_PCT == 90

LAG_BOOST_DIV == 4

DISPATCH_BATCH_MAX == 8

INV_SHIFT == 20

SCALE == 100

\* div_by_weight_cached takes the reciprocal path for val <= 0xffffffff.  The
\* model checker's integers end at 2^31 - 1, so every value it can represent
\* lies below the source's limit; the comparison is kept with that limit.
FAST_DIV_LIMIT == 2147483647

(* --------------------------- word arithmetic -------------------------- *)

Pow2(n) == 2 ^ n

U64_MOD == Pow2(WordBits)

U64_MAX == U64_MOD - 1

S64_MAX == (U64_MOD \div 2) - 1

\* (u64)x : reduction modulo the word size.
ToU64(x) == x % U64_MOD

\* (s64)x : the two's-complement reading of the word.
ToS64(x) == LET u == x % U64_MOD IN IF u > S64_MAX THEN u - U64_MOD ELSE u

\* time_before(a, b) == ((s64)((a) - (b)) < 0)
time_before(a, b) == ToS64(a - b) < 0

Max(a, b) == IF a >= b THEN a ELSE b

Min(a, b) == IF a <= b THEN a ELSE b

Abs(x) == IF x < 0 THEN -x ELSE x

(* ------------------------- capacity and class ------------------------- *)

get_cpu_cap_raw(table, cpu) == IF cpu \in DOMAIN table THEN table[cpu] ELSE 0

\* get_cpu_cap: a zero (unknown) entry reads as CAPACITY_SCALE.
get_cpu_cap(table, cpu) ==
    IF cpu \in DOMAIN table /\ table[cpu] # 0 THEN table[cpu] ELSE CAPACITY_SCALE

class_dsq_id(cap, max_cap) ==
    LET m == IF max_cap = 0 THEN CAPACITY_SCALE ELSE max_cap
    IN  IF cap * 100 >= m * BIG_CAP_PCT THEN EEVDF_DSQ_BIG ELSE EEVDF_DSQ_LITTLE

\* max_cap as every handler derives it from global_data[0].max_capacity.
MaxCapOf(g) == IF g.max_capacity # 0 THEN g.max_capacity ELSE CAPACITY_SCALE

\* Q_max = rho_max * slice / CAPACITY_SCALE
QMax(max_cap) == (max_cap * SCX_SLICE_DFL) \div CAPACITY_SCALE

LagBoost(max_cap) == (QMax(max_cap) \div LAG_BOOST_DIV) + 1

\* lag = (s64)vtime_now - (s64)dsq_vtime, in s64 arithmetic.
LagOf(vnow, ve) == ToS64(ToS64(vnow) - ToS64(ve))

desired_dsq_by_cpu(vnow, ve, cpu, table, max_cap) ==
    class_dsq_id(get_cpu_cap(table, cpu), max_cap)

desired_dsq_for_task(vnow, ve, cpu, table, max_cap) ==
    LET lag_boost == LagBoost(max_cap)
        lag       == LagOf(vnow, ve)
    IN  IF lag > lag_boost THEN EEVDF_DSQ_BIG
        ELSE IF lag < -lag_boost THEN EEVDF_DSQ_LITTLE
        ELSE class_dsq_id(get_cpu_cap(table, cpu), max_cap)

(* ---------------------------- weight cache ---------------------------- *)

\* A task_ctx_map entry.  enq_ns (EEVDF_TELEMETRY build) is 0 when cleared and
\* 1 when it holds a time stamp of bpf_ktime_get_ns(), which is monotonic and
\* not zero: a later reading is never below a stored one.
NoTctx == [present |-> FALSE, weight_cached |-> 0, inv_weight |-> 0, enq_ns |-> 0]

\* The reciprocal refresh_weight_cache stores for a (non-zero) weight.
InvWeight(weight) ==
    LET inv == (Pow2(INV_SHIFT) + (weight \div 2)) \div weight
    IN  IF inv = 0 THEN 1 ELSE inv

refresh_weight_cache(tc, weight0) ==
    LET weight == IF weight0 = 0 THEN 1 ELSE weight0
    IN  IF ~tc.present THEN tc
        ELSE IF tc.weight_cached = weight /\ tc.inv_weight # 0 THEN tc
        ELSE [tc EXCEPT !.weight_cached = weight, !.inv_weight = InvWeight(weight)]

div_by_weight_cached(val, weight0, tc) ==
    LET weight == IF weight0 = 0 THEN 1 ELSE weight0
        tc2    == refresh_weight_cache(tc, weight)
    IN  IF tc2.present /\ tc2.inv_weight # 0 /\ val <= FAST_DIV_LIMIT
        THEN (val * tc2.inv_weight) \div Pow2(INV_SHIFT)
        ELSE val \div weight

(* -------------------------- signed helpers ---------------------------- *)

abs_s64_to_u64(v) == IF v >= 0 THEN v ELSE ToU64((-(v + 1)) + 1)

\* Truncating signed division; 0 when the denominator is 0.
div_signed_u64(num, den) ==
    IF den = 0 THEN 0
    ELSE LET abs_q == abs_s64_to_u64(num) \div den
         IN  IF num < 0 THEN ToS64(-abs_q) ELSE ToS64(abs_q)

\* Saturating signed addition to vtime_now: returns the new vtime_now.
add_signed_vtime(vnow, delta) ==
    IF delta >= 0
    THEN IF vnow > U64_MAX - delta THEN U64_MAX ELSE vnow + delta
    ELSE LET sub == abs_s64_to_u64(delta)
         IN  IF vnow > sub THEN vnow - sub ELSE 0

(* ------------------------------- state -------------------------------- *)

VARIABLES
    G,             \* global_data[0]: vtime_now, total_weight, max_capacity
    cpu_capacity,  \* the cpu_capacity map: cpu -> capacity (0 = unknown)
    task,          \* per task: lifecycle position and the p->scx fields
    tctx,          \* the task_ctx_map entry of each task
    dsq,           \* the two named queues, each ordered by virtual deadline
    local,         \* the per-CPU local queue of the runtime
    last,          \* the handler that ran last, with the values it started from
    agent,         \* the userspace agent: position, locals of the refresh pass
    sysfs,         \* the capacity source the agent reads, and its change count
    calc,          \* operands and result of the last reciprocal division
    used,          \* how many handler invocations have run
    base,          \* the single-queue scheduler on a twin machine, same events
    kern,          \* the runtime: the scheduler attached, the named queues created
    inflight       \* per handler: the one part-way through on some CPU, its loads

vars == <<G, cpu_capacity, task, tctx, dsq, local, last, agent, sysfs, calc, used,
          base, kern, inflight>>

DsqIds == {EEVDF_DSQ_BIG, EEVDF_DSQ_LITTLE}

\* ret is the value an init returned;
\* idle tells whether a picker found the CPU of a select_cpu idle;
\* slots and q0 are the slot count and the queues a dispatch started from;
\* stat_inc lists the counters the handler incremented (EEVDF_TELEMETRY build).
NoEvent ==
    [op |-> "none", t |-> "-", cpu |-> 0, V0 |-> 0, W0 |-> 0, ve0 |-> 0,
     w |-> 0, wnew |-> 0, slice |-> 0, dsq |-> 0, vd |-> 0, moved |-> <<>>,
     slots |-> 0, q0 |-> <<<<>>, <<>>>>, stat_inc |-> <<>>, idle |-> FALSE,
     ret |-> 0]

\* The handlers that can be in flight: those called for a task, under the
\* task, and eevdf_dispatch, which is called for a CPU, under "-".
Handlers == Tasks \cup {"-"}

\* No handler is part-way through.  A handler in flight has its
\* arguments (w, slice; cpu, idle, icpu are the pickers' results of a
\* select_cpu; cpu, slots are the CPU and scx_bpf_dispatch_nr_slots() of a
\* dispatch), its position (pc), the values of vtime_now, total_weight and
\* max_capacity it holds from its last access of them (V, W, M, when hasV,
\* hasW, hasM), the value C the test of get_cpu_cap read, and its locals (ve
\* is p->scx.dsq_vtime as the handler found it, v_now, max_cap and svc the
\* locals v_now, max_cap and svc_vtime, cap what the last get_cpu_cap
\* returned, sel and des the locals selected_dsq and desired_dsq (dsq_id in
\* eevdf_enqueue), sum new_sum, old old_sum, delta the amount to add, cmp the
\* result of a comparison).
NoInflight ==
    [t \in Handlers |->
        [op |-> "none", w |-> 0, slice |-> 0, cpu |-> 0, idle |-> FALSE, icpu |-> 0,
         slots |-> 0, pc |-> 0, hasV |-> FALSE, V |-> 0, hasW |-> FALSE, W |-> 0,
         hasM |-> FALSE, M |-> 0, C |-> 0, ve |-> 0, v_now |-> 0, max_cap |-> 0,
         svc |-> 0, cap |-> 0, sel |-> 0, des |-> 0,
         lag |-> 0, sum |-> 0, old |-> 0, delta |-> 0, cmp |-> FALSE]]

Event(op, t, cpu, ve0, w) ==
    [NoEvent EXCEPT !.op = op, !.t = t, !.cpu = cpu, !.V0 = G.vtime_now,
                    !.W0 = G.total_weight, !.ve0 = ve0, !.w = w]

\* The weight a handler uses for p->scx.weight.
EffWeight(w) == IF w = 0 THEN 1 ELSE w

\* skel and link are the agent's handles, exit_req its signal flag, status
\* its exit status (-1 while it runs), looped whether it entered its main loop.
AgentIdle ==
    [pc |-> "off", cpu |-> 0, max_cap |-> 0, changed |-> FALSE,
     ctx |-> [vtime_now |-> 0, total_weight |-> 0, max_capacity |-> 0],
     tick |-> 0, skel |-> "loaded", link |-> "attached", exit_req |-> FALSE,
     status |-> -1, looped |-> TRUE]

\* The scheduler attached with both named queues, as ops.init leaves them.
KernAttached == [ops |-> "eevdf", dsqs |-> {EEVDF_DSQ_BIG, EEVDF_DSQ_LITTLE}]

KernNone == [ops |-> "none", dsqs |-> {}]

NoCalc == [w |-> 1, val |-> 0, q |-> 0]

\* The twin machine with no scheduler loaded.
NoBaseline ==
    [loaded |-> FALSE, sync |-> TRUE, vtime_now |-> 0, total_weight |-> 0,
     ve |-> [t \in Tasks |-> 0], q |-> <<>>, promoted |-> <<>>]

(* ------------------------- runtime primitives ------------------------- *)

\* scx_bpf_dsq_insert_vtime: the entry goes behind every entry whose key is
\* not larger (equal keys stay in insertion order).
RECURSIVE InsertPos(_, _, _)
InsertPos(q, vd, i) ==
    IF i > Len(q) THEN i
    ELSE IF q[i].vd > vd THEN i
    ELSE InsertPos(q, vd, i + 1)

DsqInsertVtime(q, t, vd) ==
    LET k == InsertPos(q, vd, 1)
    IN  SubSeq(q, 1, k - 1) \o <<[t |-> t, vd |-> vd]>> \o SubSeq(q, k, Len(q))

\* The entry scx_bpf_dsq_move_to_local takes from a non-empty queue.
DsqFirst(q) == Head(q)

DsqRest(q) == Tail(q)

(* ------------------------------ handlers ------------------------------ *)

\* The insertion eevdf_enqueue makes: scx_bpf_dsq_insert_vtime keyed by vd.
EnqueueInsert_fifo(q, t, vd) == Append(q, [t |-> t, vd |-> vd])

EnqueueInsert(q, t, vd) == DsqInsertVtime(q, t, vd)

eevdf_enqueue_noclamp(g, ve0, weight0, cpu, table, tc0) ==
    LET tc     == [tc0 EXCEPT !.present = TRUE]
        weight == IF weight0 = 0 THEN 1 ELSE weight0
        tc1    == refresh_weight_cache(tc, weight)
        q_max  == QMax(MaxCapOf(g))
    IN  [ve |-> ve0,
         vd |-> ToU64(ve0 + div_by_weight_cached(ToU64(q_max * SCALE), weight, tc1)),
         tc |-> [tc1 EXCEPT !.enq_ns = 1],
         dsq |-> desired_dsq_for_task(g.vtime_now, ve0, cpu, table, MaxCapOf(g))]

eevdf_enqueue_upper(g, ve0, weight0, cpu, table, tc0) ==
    LET tc     == [tc0 EXCEPT !.present = TRUE]
        weight == IF weight0 = 0 THEN 1 ELSE weight0
        tc1    == refresh_weight_cache(tc, weight)
        q_max  == QMax(MaxCapOf(g))
        min_ve == IF g.vtime_now > q_max THEN g.vtime_now - q_max ELSE 0
        ve     == IF time_before(ve0, min_ve) THEN min_ve
                  ELSE IF time_before(g.vtime_now, ve0) THEN g.vtime_now ELSE ve0
    IN  [ve |-> ve,
         vd |-> ToU64(ve + div_by_weight_cached(ToU64(q_max * SCALE), weight, tc1)),
         tc |-> [tc1 EXCEPT !.enq_ns = 1],
         dsq |-> desired_dsq_for_task(g.vtime_now, ve, cpu, table, MaxCapOf(g))]

\* eevdf_enqueue: the clamped v_e, the deadline key, the target queue and the
\* task's storage (created if missing, stamped with the enqueue time).
eevdf_enqueue(g, ve0, weight0, cpu, table, tc0) ==
    LET v_now   == g.vtime_now
        tc      == IF tc0.present THEN tc0
                   ELSE [NoTctx EXCEPT !.present = TRUE]
        max_cap == MaxCapOf(g)
        q_max   == QMax(max_cap)
        min_ve  == IF v_now > q_max THEN v_now - q_max ELSE 0
        ve      == IF time_before(ve0, min_ve) THEN min_ve ELSE ve0
        weight  == IF weight0 = 0 THEN 1 ELSE weight0
        tc1     == refresh_weight_cache(tc, weight)
        vd      == ToU64(ve + div_by_weight_cached(ToU64(q_max * SCALE), weight, tc1))
    IN  [ve |-> ve, vd |-> vd, tc |-> [tc1 EXCEPT !.enq_ns = 1],
         dsq |-> desired_dsq_for_task(v_now, ve, cpu, table, max_cap)]

\* eevdf_running: the new vtime_now.
eevdf_running(g, ve) ==
    IF time_before(g.vtime_now, ve) THEN ve ELSE g.vtime_now

\* eevdf_running, the latency sample (EEVDF_TELEMETRY build): a task whose
\* storage holds an enqueue time stamp counts in stats[2], and the stamp is
\* cleared; a task without storage or without a stamp counts nowhere.
eevdf_running_latency(tc) ==
    IF ~tc.present \/ tc.enq_ns = 0 THEN [tc |-> tc, stat_inc |-> <<>>]
    ELSE [tc |-> [tc EXCEPT !.enq_ns = 0], stat_inc |-> <<2>>]

\* svc_vtime = consumed * cap * SCALE / CAPACITY_SCALE
SvcVtime(slice, cap) ==
    LET consumed == ToU64(SCX_SLICE_DFL - slice)
    IN  ToU64(consumed * cap * SCALE) \div CAPACITY_SCALE

eevdf_stopping_unscaled(g, ve0, weight0, slice, cap, tc) ==
    LET weight == IF weight0 = 0 THEN 1 ELSE weight0
        svc    == SvcVtime(slice, cap)
    IN  [ve |-> ToU64(ve0 + div_by_weight_cached(svc, weight, tc)),
         tc |-> refresh_weight_cache(tc, weight),
         vnow |-> IF g.total_weight # 0
                  THEN ToU64(g.vtime_now + ((svc \div SCALE) \div g.total_weight))
                  ELSE g.vtime_now]

eevdf_stopping_nocap(g, ve0, weight0, slice, cap, tc) ==
    LET weight == IF weight0 = 0 THEN 1 ELSE weight0
        svc    == SvcVtime(slice, CAPACITY_SCALE)
    IN  [ve |-> ToU64(ve0 + div_by_weight_cached(svc, weight, tc)),
         tc |-> refresh_weight_cache(tc, weight),
         vnow |-> IF g.total_weight # 0
                  THEN ToU64(g.vtime_now + (svc \div g.total_weight))
                  ELSE g.vtime_now]

\* eevdf_stopping: the new dsq_vtime, vtime_now and weight cache.
eevdf_stopping(g, ve0, weight0, slice, cap, tc) ==
    LET weight == IF weight0 = 0 THEN 1 ELSE weight0
        svc    == SvcVtime(slice, cap)
    IN  [ve |-> ToU64(ve0 + div_by_weight_cached(svc, weight, tc)),
         tc |-> refresh_weight_cache(tc, weight),
         vnow |-> IF g.total_weight # 0
                  THEN ToU64(g.vtime_now + (svc \div g.total_weight))
                  ELSE g.vtime_now]

SetWeightSum_keep_old(old_sum, old_weight, new_weight) ==
    ToU64(old_sum + new_weight)

\* The total_weight eevdf_set_weight leaves.
SetWeightSum(old_sum, old_weight, new_weight) ==
    ToU64((IF old_sum >= old_weight THEN old_sum - old_weight ELSE old_sum)
          + new_weight)

eevdf_set_weight_swapped(g, ve, old_weight0, new_weight0, tc0) ==
    LET old_weight == IF old_weight0 = 0 THEN 1 ELSE old_weight0
        new_weight == IF new_weight0 = 0 THEN 1 ELSE new_weight0
        old_sum    == g.total_weight
        tc         == IF tc0.present THEN tc0
                      ELSE [NoTctx EXCEPT !.present = TRUE]
        new_sum    == SetWeightSum(old_sum, old_weight, new_weight)
        lag        == LagOf(g.vtime_now, ve)
        diff       == ToS64(div_signed_u64(lag, new_sum) - div_signed_u64(lag, old_sum))
    IN  [tc |-> refresh_weight_cache(tc, new_weight),
         g  |-> [g EXCEPT !.total_weight = new_sum,
                          !.vtime_now = IF old_sum = 0 \/ new_sum = 0 THEN @
                                        ELSE add_signed_vtime(@, diff)]]

\* eevdf_set_weight: the new global state and weight cache.
eevdf_set_weight(g, ve, old_weight0, new_weight0, tc0) ==
    LET old_weight == IF old_weight0 = 0 THEN 1 ELSE old_weight0
        new_weight == IF new_weight0 = 0 THEN 1 ELSE new_weight0
        old_sum    == g.total_weight
        tc         == IF tc0.present THEN tc0
                      ELSE [NoTctx EXCEPT !.present = TRUE]
        new_sum    == SetWeightSum(old_sum, old_weight, new_weight)
        lag        == LagOf(g.vtime_now, ve)
        diff       == ToS64(div_signed_u64(lag, old_sum) - div_signed_u64(lag, new_sum))
    IN  [tc |-> refresh_weight_cache(tc, new_weight),
         g  |-> [g EXCEPT !.total_weight = new_sum,
                          !.vtime_now = IF old_sum = 0 \/ new_sum = 0 THEN @
                                        ELSE add_signed_vtime(@, diff)]]

eevdf_enable_raw_weight(g, ve0, weight0) ==
    LET ve      == IF ve0 = 0 THEN g.vtime_now ELSE ve0
        lag     == LagOf(g.vtime_now, ve)
        new_sum == ToU64(g.total_weight + weight0)
    IN  [ve |-> ve,
         g  |-> [g EXCEPT !.total_weight = new_sum,
                          !.vtime_now = IF new_sum # 0
                                        THEN add_signed_vtime(@, ToS64(-div_signed_u64(lag, new_sum)))
                                        ELSE @]]

eevdf_enable_added(g, ve0, weight0) ==
    LET weight  == IF weight0 = 0 THEN 1 ELSE weight0
        ve      == IF ve0 = 0 THEN g.vtime_now ELSE ve0
        lag     == LagOf(g.vtime_now, ve)
        new_sum == ToU64(g.total_weight + weight)
    IN  [ve |-> ve,
         g  |-> [g EXCEPT !.total_weight = new_sum,
                          !.vtime_now = IF new_sum # 0
                                        THEN add_signed_vtime(@, div_signed_u64(lag, new_sum))
                                        ELSE @]]

\* eevdf_enable: the new dsq_vtime and global state.
eevdf_enable(g, ve0, weight0) ==
    LET weight  == IF weight0 = 0 THEN 1 ELSE weight0
        ve      == IF ve0 = 0 THEN g.vtime_now ELSE ve0
        lag     == LagOf(g.vtime_now, ve)
        new_sum == ToU64(g.total_weight + weight)
    IN  [ve |-> ve,
         g  |-> [g EXCEPT !.total_weight = new_sum,
                          !.vtime_now = IF new_sum # 0
                                        THEN add_signed_vtime(@, ToS64(-div_signed_u64(lag, new_sum)))
                                        ELSE @]]

eevdf_disable_negated(g, ve, weight0) ==
    LET weight  == IF weight0 = 0 THEN 1 ELSE weight0
        lag     == LagOf(g.vtime_now, ve)
        new_sum == IF g.total_weight >= weight THEN g.total_weight - weight ELSE 0
    IN  [g EXCEPT !.total_weight = new_sum,
                  !.vtime_now = IF new_sum # 0
                                THEN add_signed_vtime(@, ToS64(-div_signed_u64(lag, new_sum)))
                                ELSE @]

eevdf_disable_nodiv(g, ve, weight0) ==
    LET weight  == IF weight0 = 0 THEN 1 ELSE weight0
        lag     == LagOf(g.vtime_now, ve)
        new_sum == IF g.total_weight >= weight THEN g.total_weight - weight ELSE 0
    IN  [g EXCEPT !.total_weight = new_sum,
                  !.vtime_now = IF new_sum # 0 THEN add_signed_vtime(@, lag) ELSE @]

eevdf_disable_floor(g, ve, weight0) ==
    LET weight  == IF weight0 = 0 THEN 1 ELSE weight0
        lag     == LagOf(g.vtime_now, ve)
        new_sum == IF g.total_weight >= weight THEN g.total_weight - weight ELSE 0
    IN  [g EXCEPT !.total_weight = new_sum,
                  !.vtime_now = IF new_sum # 0
                                THEN add_signed_vtime(@, lag \div new_sum)
                                ELSE @]

eevdf_disable_wrap(g, ve, weight0) ==
    LET weight  == IF weight0 = 0 THEN 1 ELSE weight0
        lag     == LagOf(g.vtime_now, ve)
        new_sum == ToU64(g.total_weight - weight)
    IN  [g EXCEPT !.total_weight = new_sum,
                  !.vtime_now = IF new_sum # 0
                                THEN add_signed_vtime(@, div_signed_u64(lag, new_sum))
                                ELSE @]

eevdf_disable_keep_sum(g, ve, weight0) ==
    LET weight  == IF weight0 = 0 THEN 1 ELSE weight0
        lag     == LagOf(g.vtime_now, ve)
        new_sum == IF g.total_weight >= weight THEN g.total_weight - weight ELSE 0
    IN  [g EXCEPT !.vtime_now = IF new_sum # 0
                                THEN add_signed_vtime(@, div_signed_u64(lag, new_sum))
                                ELSE @]

\* eevdf_disable: the new global state.
eevdf_disable(g, ve, weight0) ==
    LET weight  == IF weight0 = 0 THEN 1 ELSE weight0
        lag     == LagOf(g.vtime_now, ve)
        new_sum == IF g.total_weight >= weight THEN g.total_weight - weight ELSE 0
    IN  [g EXCEPT !.total_weight = new_sum,
                  !.vtime_now = IF new_sum # 0
                                THEN add_signed_vtime(@, div_signed_u64(lag, new_sum))
                                ELSE @]

(* ----------------- the single-queue (classical) scheduler ------------- *)

\* eevdf_enqueue of the single-queue scheduler: unsigned clamp to
\* v_now - slice, deadline ve + slice * SCALE / weight, one shared queue.
base_enqueue(b, t, weight0) ==
    LET slice  == SCX_SLICE_DFL
        v_now  == b.vtime_now
        floor  == ToU64(v_now - slice)
        ve     == IF b.ve[t] < floor THEN floor ELSE b.ve[t]
        weight == IF weight0 = 0 THEN 1 ELSE weight0
        vd     == ToU64(ve + ((slice * SCALE) \div weight))
    IN  [b EXCEPT !.ve[t] = ve, !.q = DsqInsertVtime(@, t, vd)]

\* eevdf_dispatch of the single-queue scheduler: one move_to_local.
base_dispatch(b) ==
    IF b.q = <<>> THEN [b EXCEPT !.promoted = <<>>]
    ELSE [b EXCEPT !.promoted = <<DsqFirst(b.q).t>>, !.q = DsqRest(@)]

base_running(b, t) ==
    [b EXCEPT !.vtime_now = IF b.ve[t] > @ THEN b.ve[t] ELSE @]

base_stopping(b, t, weight0, slice) ==
    LET consumed == ToU64(SCX_SLICE_DFL - slice)
        weight   == IF weight0 = 0 THEN 1 ELSE weight0
    IN  [b EXCEPT !.ve[t] = ToU64(@ + ((consumed * SCALE) \div weight))]

base_set_weight(b, t, old_weight, new_weight) ==
    LET old_sum    == b.total_weight
        new_sum    == ToU64((IF old_sum >= old_weight THEN old_sum - old_weight
                             ELSE old_sum) + new_weight)
        lag        == LagOf(b.vtime_now, b.ve[t])
        abs_lag    == ToU64(IF lag < 0 THEN -lag ELSE lag)
        sign       == IF lag < 0 THEN -1 ELSE 1
        adjust_old == ToS64(ToS64(abs_lag \div old_sum) * sign)
        adjust_new == ToS64(ToS64(abs_lag \div new_sum) * sign)
        diff       == ToS64(adjust_old - adjust_new)
    IN  [b EXCEPT !.total_weight = new_sum,
                  !.vtime_now = IF old_sum = 0 \/ new_sum = 0 \/ old_weight = 0 THEN @
                                ELSE ToU64(@ + diff)]

\* eevdf_select_cpu of the single-queue scheduler: the default picker's CPU,
\* and the task inserted into its local queue whenever that CPU is idle.
base_select_cpu(dfl_cpu, dfl_idle) ==
    [cpu |-> dfl_cpu, insert |-> dfl_idle,
     stat_inc |-> IF dfl_idle THEN <<0>> ELSE <<>>]

base_enable(b, t, weight) ==
    [b EXCEPT !.ve[t] = b.vtime_now, !.total_weight = ToU64(@ + weight)]

base_disable(b, t, weight) ==
    [b EXCEPT !.total_weight = IF @ >= weight THEN @ - weight ELSE @]

(* ------------------------------- actions ------------------------------ *)

\* The twin machine, when loaded, handles the same event.
Twin(b) == IF base.loaded THEN b ELSE base

\* No CPU runs two tasks: the task running on cpu, if any.
RunningOn(cpu) == {t \in Tasks : task[t].st = "running" /\ task[t].cpu = cpu}

\* A run that starts with used above MaxEvents is not cut off after MaxEvents
\* steps: its own state space is finite.
Unbounded == used > MaxEvents

\* Every handler invocation counts against MaxEvents; the agent's variables and
\* the division scratch are not the handlers'.  A run of two machines ends at
\* the first dispatch in which they promote different tasks, or the first
\* select_cpu in which only one of them inserts the task into a local queue.
CoreFrame ==
    /\ used < MaxEvents \/ Unbounded
    /\ base.sync
    /\ used' = IF Unbounded THEN used ELSE used + 1
    /\ UNCHANGED <<agent, sysfs, calc, kern, inflight>>

\* ops.enable(p).  The runtime has set p->scx.weight before the call.
Enable(t, w) ==
    /\ CoreFrame
    /\ task[t].st = "off"
    /\ LET r == eevdf_enable(G, task[t].dsq_vtime, w)
       IN  /\ G' = r.g
           /\ task' = [task EXCEPT ![t].st = "ready", ![t].weight = w,
                                   ![t].dsq_vtime = r.ve]
           /\ last' = Event("enable", t, task[t].cpu, task[t].dsq_vtime, w)
    /\ base' = Twin(base_enable(base, t, w))
    /\ UNCHANGED <<cpu_capacity, tctx, dsq, local>>

\* ops.disable(p), which also deletes the task's task_ctx_map entry.
Disable(t) ==
    /\ CoreFrame
    /\ task[t].st = "ready"
    /\ G' = eevdf_disable(G, task[t].dsq_vtime, task[t].weight)
    /\ task' = [task EXCEPT ![t].st = "off"]
    /\ tctx' = [tctx EXCEPT ![t] = NoTctx]
    /\ last' = Event("disable", t, task[t].cpu, task[t].dsq_vtime, task[t].weight)
    /\ base' = Twin(base_disable(base, t, task[t].weight))
    /\ UNCHANGED <<cpu_capacity, dsq, local>>

\* ops.set_weight(p, new_weight); the runtime then stores the new weight in
\* p->scx.weight (T(p).w := w_new).
SetWeight(t, w) ==
    /\ CoreFrame
    /\ task[t].st # "off"
    /\ LET r == eevdf_set_weight(G, task[t].dsq_vtime, task[t].weight, w, tctx[t])
       IN  /\ G' = r.g
           /\ tctx' = [tctx EXCEPT ![t] = r.tc]
    /\ task' = [task EXCEPT ![t].weight = w]
    /\ last' = [Event("set_weight", t, task[t].cpu, task[t].dsq_vtime, task[t].weight)
                  EXCEPT !.wnew = w]
    /\ base' = Twin(base_set_weight(base, t, task[t].weight, w))
    /\ UNCHANGED <<cpu_capacity, dsq, local>>

\* ops.enqueue(p, enq_flags).
Enqueue(t) ==
    /\ CoreFrame
    /\ task[t].st = "ready"
    /\ LET r == eevdf_enqueue(G, task[t].dsq_vtime, task[t].weight, task[t].cpu,
                              cpu_capacity, tctx[t])
       IN  /\ task' = [task EXCEPT ![t].st = "queued", ![t].dsq_vtime = r.ve]
           /\ tctx' = [tctx EXCEPT ![t] = r.tc]
           /\ dsq' = [dsq EXCEPT ![r.dsq] = EnqueueInsert(@, t, r.vd)]
           /\ last' = [Event("enqueue", t, task[t].cpu, task[t].dsq_vtime, task[t].weight)
                         EXCEPT !.dsq = r.dsq, !.vd = r.vd, !.stat_inc = <<1>>]
    /\ base' = Twin(base_enqueue(base, t, task[t].weight))
    /\ UNCHANGED <<G, cpu_capacity, local>>

\* The loop of eevdf_dispatch: i iterations done, q the queues, moved the tasks
\* moved to the local queue so far.
RECURSIVE DispatchLoop(_, _, _, _, _, _)
DispatchLoop(i, slots, local_dsq, other_dsq, q, moved) ==
    IF i >= DISPATCH_BATCH_MAX \/ i >= slots THEN [q |-> q, moved |-> moved]
    ELSE IF q[local_dsq] # <<>>
    THEN DispatchLoop(i + 1, slots, local_dsq, other_dsq,
                      [q EXCEPT ![local_dsq] = DsqRest(@)],
                      Append(moved, [t |-> DsqFirst(q[local_dsq]).t,
                                     vd |-> DsqFirst(q[local_dsq]).vd,
                                     src |-> local_dsq]))
    ELSE IF q[other_dsq] # <<>>
    THEN DispatchLoop(i + 1, slots, local_dsq, other_dsq,
                      [q EXCEPT ![other_dsq] = DsqRest(@)],
                      Append(moved, [t |-> DsqFirst(q[other_dsq]).t,
                                     vd |-> DsqFirst(q[other_dsq]).vd,
                                     src |-> other_dsq]))
    ELSE [q |-> q, moved |-> moved]

\* The record a dispatch returns: the queues, the tasks moved, the counters
\* incremented (eevdf_dispatch calls stat_inc nowhere).
DispatchResult(r, stat) == [q |-> r.q, moved |-> r.moved, stat_inc |-> stat]

eevdf_dispatch_nospill(g, cpu, table, nr_slots, q) ==
    LET max_cap   == MaxCapOf(g)
        cap       == get_cpu_cap(table, cpu)
        local_dsq == class_dsq_id(cap, max_cap)
        slots0    == IF nr_slots = 0 THEN 1 ELSE nr_slots
        slots     == IF slots0 > DISPATCH_BATCH_MAX THEN DISPATCH_BATCH_MAX ELSE slots0
    IN  DispatchResult(DispatchLoop(0, slots, local_dsq, local_dsq, q, <<>>), <<>>)

eevdf_dispatch_zero_slots(g, cpu, table, nr_slots, q) ==
    LET max_cap   == MaxCapOf(g)
        cap       == get_cpu_cap(table, cpu)
        local_dsq == class_dsq_id(cap, max_cap)
        other_dsq == IF local_dsq = EEVDF_DSQ_BIG THEN EEVDF_DSQ_LITTLE
                     ELSE EEVDF_DSQ_BIG
        slots     == IF nr_slots > DISPATCH_BATCH_MAX THEN DISPATCH_BATCH_MAX
                     ELSE nr_slots
    IN  DispatchResult(DispatchLoop(0, slots, local_dsq, other_dsq, q, <<>>), <<>>)

eevdf_dispatch(g, cpu, table, nr_slots, q) ==
    LET max_cap   == MaxCapOf(g)
        cap       == get_cpu_cap(table, cpu)
        local_dsq == class_dsq_id(cap, max_cap)
        other_dsq == IF local_dsq = EEVDF_DSQ_BIG THEN EEVDF_DSQ_LITTLE
                     ELSE EEVDF_DSQ_BIG
        slots0    == IF nr_slots = 0 THEN 1 ELSE nr_slots
        slots     == IF slots0 > DISPATCH_BATCH_MAX THEN DISPATCH_BATCH_MAX ELSE slots0
    IN  DispatchResult(DispatchLoop(0, slots, local_dsq, other_dsq, q, <<>>), <<>>)

\* eevdf_dispatch after its reads: cap is what get_cpu_cap(cpu) returned,
\* max_cap the local max_cap.
eevdf_dispatch_moves(cap, max_cap, nr_slots, q) ==
    LET local_dsq == class_dsq_id(cap, max_cap)
        other_dsq == IF local_dsq = EEVDF_DSQ_BIG THEN EEVDF_DSQ_LITTLE
                     ELSE EEVDF_DSQ_BIG
        slots0    == IF nr_slots = 0 THEN 1 ELSE nr_slots
        slots     == IF slots0 > DISPATCH_BATCH_MAX THEN DISPATCH_BATCH_MAX ELSE slots0
    IN  DispatchResult(DispatchLoop(0, slots, local_dsq, other_dsq, q, <<>>), <<>>)

MovedTasks(moved) == {moved[i].t : i \in 1..Len(moved)}

\* The tasks a dispatch moved, in the order it moved them.
MovedSeq(moved) == [i \in 1..Len(moved) |-> moved[i].t]

Dispatch_rekey(cpu, nr_slots) ==
    /\ CoreFrame
    /\ \E d \in DsqIds : dsq[d] # <<>>
    /\ LET r == eevdf_dispatch(G, cpu, cpu_capacity, nr_slots, dsq)
       IN  /\ dsq' = r.q
           /\ local' = [local EXCEPT ![cpu] = @ \o [i \in 1..Len(r.moved) |-> r.moved[i].t]]
           /\ task' = [t \in Tasks |->
                         IF t \in MovedTasks(r.moved)
                         THEN [task[t] EXCEPT !.st = "local", !.cpu = cpu,
                                  !.dsq_vtime =
                                      r.moved[CHOOSE i \in 1..Len(r.moved) :
                                                  r.moved[i].t = t].vd]
                         ELSE task[t]]
           /\ last' = [Event("dispatch", "-", cpu, 0, 0)
                         EXCEPT !.moved = r.moved, !.slots = nr_slots, !.q0 = dsq,
                                !.stat_inc = r.stat_inc]
           /\ base' = Twin(LET b == base_dispatch(base)
                           IN  [b EXCEPT !.sync = (b.promoted = MovedSeq(r.moved))])
    /\ UNCHANGED <<G, cpu_capacity, tctx>>

\* ops.dispatch(cpu, prev); nr_slots is scx_bpf_dispatch_nr_slots().  With both
\* queues empty the handler changes nothing, so only the other calls are steps.
Dispatch(cpu, nr_slots) ==
    /\ CoreFrame
    /\ \E d \in DsqIds : dsq[d] # <<>>
    /\ LET r == eevdf_dispatch(G, cpu, cpu_capacity, nr_slots, dsq)
       IN  /\ dsq' = r.q
           /\ local' = [local EXCEPT ![cpu] = @ \o [i \in 1..Len(r.moved) |-> r.moved[i].t]]
           /\ task' = [t \in Tasks |->
                         IF t \in MovedTasks(r.moved)
                         THEN [task[t] EXCEPT !.st = "local", !.cpu = cpu]
                         ELSE task[t]]
           /\ last' = [Event("dispatch", "-", cpu, 0, 0)
                         EXCEPT !.moved = r.moved, !.slots = nr_slots, !.q0 = dsq,
                                !.stat_inc = r.stat_inc]
           /\ base' = Twin(LET b == base_dispatch(base)
                           IN  [b EXCEPT !.sync = (b.promoted = MovedSeq(r.moved))])
    /\ UNCHANGED <<G, cpu_capacity, tctx>>

\* ops.running(p): the head of cpu's local queue starts to run.
Running(cpu) ==
    /\ CoreFrame
    /\ local[cpu] # <<>>
    /\ RunningOn(cpu) = {}
    /\ LET t == Head(local[cpu])
           r == eevdf_running_latency(tctx[t])
       IN  /\ G' = [G EXCEPT !.vtime_now = eevdf_running(G, task[t].dsq_vtime)]
           /\ task' = [task EXCEPT ![t].st = "running"]
           /\ tctx' = [tctx EXCEPT ![t] = r.tc]
           /\ last' = [Event("running", t, cpu, task[t].dsq_vtime, task[t].weight)
                         EXCEPT !.stat_inc = r.stat_inc]
           /\ base' = Twin(base_running(base, t))
    /\ local' = [local EXCEPT ![cpu] = Tail(@)]
    /\ UNCHANGED <<cpu_capacity, dsq>>

\* ops.stopping(p, runnable) on the CPU the task ran on; slice is what is left
\* of p->scx.slice.
Stopping(t, slice) ==
    /\ CoreFrame
    /\ task[t].st = "running"
    /\ LET r == eevdf_stopping(G, task[t].dsq_vtime, task[t].weight, slice,
                               get_cpu_cap(cpu_capacity, task[t].cpu), tctx[t])
       IN  /\ G' = [G EXCEPT !.vtime_now = r.vnow]
           /\ task' = [task EXCEPT ![t].st = "ready", ![t].dsq_vtime = r.ve]
           /\ tctx' = [tctx EXCEPT ![t] = r.tc]
    /\ last' = [Event("stopping", t, task[t].cpu, task[t].dsq_vtime, task[t].weight)
                  EXCEPT !.slice = slice]
    /\ base' = Twin(base_stopping(base, t, task[t].weight, slice))
    /\ UNCHANGED <<cpu_capacity, dsq, local>>

eevdf_select_cpu_any_idle(g, ve, task_cpu, table, dfl_cpu, dfl_idle, idle_cpu) ==
    LET max_cap  == IF g.max_capacity # 0 THEN g.max_capacity ELSE CAPACITY_SCALE
        cpu_cap  == IF dfl_cpu >= 0 THEN get_cpu_cap(table, dfl_cpu) ELSE CAPACITY_SCALE
        desired  == desired_dsq_for_task(g.vtime_now, ve, task_cpu, table, max_cap)
        retarget == /\ ~dfl_idle
                    /\ desired # class_dsq_id(cpu_cap, max_cap)
                    /\ idle_cpu >= 0
                    /\ class_dsq_id(get_cpu_cap(table, idle_cpu), max_cap) = desired
    IN  [cpu      |-> IF retarget THEN idle_cpu ELSE dfl_cpu,
         picked   |-> ~dfl_idle /\ desired # class_dsq_id(cpu_cap, max_cap),
         insert   |-> dfl_idle \/ retarget,
         stat_inc |-> IF dfl_idle \/ retarget THEN <<0>> ELSE <<>>]

\* eevdf_select_cpu: the CPU returned, whether scx_bpf_pick_idle_cpu was
\* called, whether the task was inserted into the CPU's local queue, and the
\* counters incremented.  dfl_cpu, dfl_idle are the
\* results of scx_bpf_select_cpu_dfl, idle_cpu that of scx_bpf_pick_idle_cpu.
eevdf_select_cpu(g, ve, task_cpu, table, dfl_cpu, dfl_idle, idle_cpu) ==
    LET max_cap  == IF g.max_capacity # 0 THEN g.max_capacity ELSE CAPACITY_SCALE
        cpu_cap  == IF dfl_cpu >= 0 THEN get_cpu_cap(table, dfl_cpu) ELSE CAPACITY_SCALE
        selected == class_dsq_id(cpu_cap, max_cap)
        desired  == desired_dsq_for_task(g.vtime_now, ve, task_cpu, table, max_cap)
        retarget == /\ ~dfl_idle
                    /\ desired # selected
                    /\ idle_cpu >= 0
                    /\ class_dsq_id(get_cpu_cap(table, idle_cpu), max_cap) = desired
        cpu          == IF retarget THEN idle_cpu ELSE dfl_cpu
        is_idle      == dfl_idle \/ retarget
        selected_dsq == IF retarget
                        THEN class_dsq_id(get_cpu_cap(table, idle_cpu), max_cap)
                        ELSE selected
        insert       == is_idle /\ desired = selected_dsq
    IN  [cpu |-> cpu, picked |-> ~dfl_idle /\ desired # selected, insert |-> insert,
         stat_inc |-> IF insert THEN <<0>> ELSE <<>>]

\* ops.select_cpu(p, prev_cpu, wake_flags) for a waking task.  The default
\* picker returns an idle CPU, or prev_cpu (or an error) when it found none;
\* scx_bpf_pick_idle_cpu, called only when that picker found none, returns an
\* idle CPU or a negative value (idle_cpu is -1 when it is not called).  A
\* task inserted into the local queue skips ops.enqueue.
SelectCpu(t, dfl_cpu, dfl_idle, idle_cpu) ==
    /\ CoreFrame
    /\ task[t].st = "ready"
    /\ dfl_idle => dfl_cpu \in CPUs /\ idle_cpu = -1
    /\ ~dfl_idle => dfl_cpu \in {task[t].cpu, -1}
    /\ LET r == eevdf_select_cpu(G, task[t].dsq_vtime, task[t].cpu, cpu_capacity,
                                 dfl_cpu, dfl_idle, idle_cpu)
           found_idle == \/ dfl_idle /\ r.cpu = dfl_cpu
                         \/ r.picked /\ idle_cpu >= 0 /\ r.cpu = idle_cpu
       IN  /\ task' = [task EXCEPT ![t].st = IF r.insert THEN "local" ELSE "ready",
                                   ![t].cpu = IF r.cpu >= 0 THEN r.cpu ELSE @]
           /\ local' = IF r.insert
                       THEN [local EXCEPT ![r.cpu] = Append(@, t)]
                       ELSE local
           /\ last' = [Event("select_cpu", t, r.cpu, task[t].dsq_vtime, task[t].weight)
                         EXCEPT !.dsq = desired_dsq_for_task(G.vtime_now,
                                            task[t].dsq_vtime, task[t].cpu,
                                            cpu_capacity, MaxCapOf(G)),
                                !.moved = IF r.insert THEN <<t>> ELSE <<>>,
                                !.stat_inc = r.stat_inc,
                                !.idle = found_idle]
           /\ base' = Twin([base EXCEPT !.sync =
                               (base_select_cpu(dfl_cpu, dfl_idle).insert = r.insert)])
    /\ UNCHANGED <<G, cpu_capacity, tctx, dsq>>

DispatchSlots == {0, 1, 2, DISPATCH_BATCH_MAX + 1}

\* Results of the runtime's CPU pickers.
PickedCpus == CPUs \cup {-1}

\* The callbacks of eevdf_ops the runtime calls while the scheduler is attached.
CoreNext ==
    \/ \E t \in Tasks, c \in PickedCpus, idle \in BOOLEAN, ic \in PickedCpus :
           SelectCpu(t, c, idle, ic)
    \/ \E t \in Tasks, w \in Weights : Enable(t, w)
    \/ \E t \in Tasks : Disable(t)
    \/ \E t \in Tasks, w \in Weights : SetWeight(t, w)
    \/ \E t \in Tasks : Enqueue(t)
    \/ \E c \in CPUs, n \in DispatchSlots : Dispatch(c, n)
    \/ \E c \in CPUs : Running(c)
    \/ \E t \in Tasks, s \in SliceLeft : Stopping(t, s)

\* The max_cap a refresh pass computes from the capacities it read: their
\* maximum, 1024 when that is 0.
MaxOfTable(table) ==
    LET max_cap == CHOOSE m \in {table[c] : c \in CPUs} : \A c \in CPUs : table[c] <= m
    IN  IF max_cap = 0 THEN 1024 ELSE max_cap

\* After the agent's first refresh pass and ops.init: the capacity table is
\* filled, max_capacity is its maximum, no task is enabled.
Init ==
    /\ cpu_capacity \in CapTables
    /\ G = [vtime_now |-> 0, total_weight |-> 0,
            max_capacity |-> MaxOfTable(cpu_capacity)]
    /\ task = [t \in Tasks |-> [st |-> "off", weight |-> 0, dsq_vtime |-> 0, cpu |-> 0]]
    /\ tctx = [t \in Tasks |-> NoTctx]
    /\ dsq = [d \in DsqIds |-> <<>>]
    /\ local = [c \in CPUs |-> <<>>]
    /\ last = NoEvent
    /\ agent = AgentIdle
    /\ sysfs = [cap |-> cpu_capacity, changes |-> 0, age |-> 0]
    /\ calc = NoCalc
    /\ used = 0
    /\ base = NoBaseline
    /\ kern = KernAttached
    /\ inflight = NoInflight

Next == CoreNext

Spec == Init /\ [][Next]_vars

(* --------------------------- userspace agent -------------------------- *)

\* Every step of the agent's refresh passes and of its capacity source counts
\* against MaxEvents until the agent's exit is requested (from then on its run
\* is finite), and leaves the scheduler's task state alone.
AgentFrame ==
    /\ agent.exit_req \/ used < MaxEvents \/ Unbounded
    /\ used' = IF agent.exit_req \/ Unbounded THEN used ELSE used + 1
    /\ UNCHANGED <<task, tctx, dsq, local, calc, base, kern, inflight>>

\* The number of loop iterations from one refresh pass to the next.
CAP_REFRESH_PERIOD == 5

\* The capacity source changes under the agent (hotplug, firmware update);
\* sysfs.age counts the iterations of the main loop the agent has begun since
\* (up to CAP_REFRESH_PERIOD).
SysfsChange(c, v) ==
    /\ AgentFrame
    /\ sysfs.cap[c] # v
    /\ sysfs.changes < MaxSysfsChanges
    /\ sysfs' = [cap |-> [sysfs.cap EXCEPT ![c] = v], changes |-> sysfs.changes + 1,
                 age |-> 0]
    /\ UNCHANGED <<G, cpu_capacity, agent, last>>

\* cap_refresh_tick is an unsigned int: it wraps at 2^32, and 2^32 leaves the
\* remainder 1 modulo CAP_REFRESH_PERIOD.  The model's counter wraps at 2^4,
\* which leaves the same remainder.
TickMod == Pow2(4)

\* while (!exit_req) { sleep(1); ...: the test at the head of the loop finds
\* the flag clear and the iteration begins.
AgentSleep ==
    /\ AgentFrame
    /\ agent.pc = "loop"
    /\ ~agent.exit_req
    /\ agent' = [agent EXCEPT !.pc = "sleep", !.looped = TRUE]
    /\ sysfs' = [sysfs EXCEPT !.age = IF @ < CAP_REFRESH_PERIOD THEN @ + 1 ELSE @]
    /\ UNCHANGED <<G, cpu_capacity, last>>

AgentTick_every_sixth ==
    /\ AgentFrame
    /\ agent.pc = "sleep"
    /\ agent' = IF agent.tick % 6 = 0
                THEN [agent EXCEPT !.pc = "scan", !.cpu = 0, !.max_cap = 0,
                                   !.changed = FALSE, !.tick = (@ + 1) % TickMod]
                ELSE [agent EXCEPT !.pc = "loop", !.tick = (@ + 1) % TickMod]
    /\ UNCHANGED <<G, cpu_capacity, sysfs, last>>

\* sleep(1) has returned (a signal that arrived meanwhile has only set the
\* flag): if ((cap_refresh_tick++ % 5) == 0) refresh_cpu_capacities(skel, false);
\* without a refresh pass the iteration is over.
AgentTick ==
    /\ AgentFrame
    /\ agent.pc = "sleep"
    /\ agent' = IF agent.tick % CAP_REFRESH_PERIOD = 0
                THEN [agent EXCEPT !.pc = "scan", !.cpu = 0, !.max_cap = 0,
                                   !.changed = FALSE, !.tick = (@ + 1) % TickMod]
                ELSE [agent EXCEPT !.pc = "loop", !.tick = (@ + 1) % TickMod]
    /\ UNCHANGED <<G, cpu_capacity, sysfs, last>>

\* refresh_cpu_capacities, one iteration of the loop over the CPUs.
AgentScanCpu ==
    /\ AgentFrame
    /\ agent.pc = "scan"
    /\ LET cpu     == agent.cpu
           cap     == sysfs.cap[cpu]
           write   == cpu_capacity[cpu] # cap
           max_cap == IF cap > agent.max_cap THEN cap ELSE agent.max_cap
           done    == cpu + 1 \notin CPUs
       IN  /\ cpu_capacity' = IF write THEN [cpu_capacity EXCEPT ![cpu] = cap]
                              ELSE cpu_capacity
           /\ agent' = [agent EXCEPT
                           !.changed = @ \/ write,
                           !.cpu = cpu + 1,
                           !.max_cap = IF done /\ max_cap = 0 THEN 1024 ELSE max_cap,
                           !.pc = IF done THEN "lookup" ELSE "scan"]
    /\ UNCHANGED <<G, sysfs, last>>

\* bpf_map_lookup_elem(gmap_fd, &key, &ctx): the agent's copy of global_data[0].
AgentLookup ==
    /\ AgentFrame
    /\ agent.pc = "lookup"
    /\ agent' = [agent EXCEPT !.ctx = G, !.pc = "update"]
    /\ UNCHANGED <<G, cpu_capacity, sysfs, last>>

\* The global_data[0] the agent's bpf_map_update_elem stores: its whole copy.
AgentStore(g, ctx, max_cap) == [ctx EXCEPT !.max_capacity = max_cap]

\* Where refresh_cpu_capacities returns to: the attach of main's start-up, or
\* the end of the loop's iteration (the test at its head comes next).
AfterRefresh == IF agent.link = "none" THEN "attach" ELSE "loop"

\* if (ctx.max_capacity != max_cap) { ...; bpf_map_update_elem(gmap_fd, ...); }
AgentUpdate ==
    /\ AgentFrame
    /\ agent.pc = "update"
    /\ IF agent.ctx.max_capacity # agent.max_cap
       THEN /\ G' = AgentStore(G, agent.ctx, agent.max_cap)
            /\ agent' = [agent EXCEPT !.changed = TRUE, !.pc = AfterRefresh]
            /\ last' = Event("agent_update", "-", 0, 0, 0)
       ELSE /\ agent' = [agent EXCEPT !.pc = AfterRefresh]
            /\ UNCHANGED <<G, last>>
    /\ UNCHANGED <<cpu_capacity, sysfs>>

AgentNext ==
    \/ \E c \in CPUs, v \in CapValues : SysfsChange(c, v)
    \/ AgentSleep
    \/ AgentTick
    \/ AgentScanCpu
    \/ AgentLookup
    \/ AgentUpdate

\* How many steps of the agent and handler invocations a run of the agent
\* beside the handlers holds.
AgentEvents == 3

\* The agent between two steps of its refresh pass after the capacity of CPU 0
\* dropped to 512: the table is rewritten, max_capacity is still to be.
AgentInPass ==
    [AgentIdle EXCEPT !.pc = "lookup", !.cpu = 2, !.max_cap = 512, !.changed = TRUE,
                      !.tick = 1]

\* The agent at the head of a refresh pass (tick is the counter after its
\* increment).
AgentAtScan == [AgentIdle EXCEPT !.pc = "scan", !.tick = 1]

\* The scheduler attached, B enabled and ready at vtime_now, A not enabled or
\* enabled as a new task; the agent in the sleep(1) before a refresh pass, at
\* the head of a pass after the capacity files of all CPUs came to hold 0, or
\* within a pass, about to read global_data[0].
InitAgent ==
    /\ \E at \in {"sleep", "scan", "lookup"}, sa \in {"off", "ready"} :
           /\ cpu_capacity = IF at = "lookup" THEN [c \in CPUs |-> 512]
                             ELSE [c \in CPUs |-> IF c = 0 THEN 1024 ELSE 512]
           /\ sysfs = [cap |-> IF at = "scan" THEN [c \in CPUs |-> 0] ELSE cpu_capacity,
                       changes |-> IF at = "sleep" THEN 0 ELSE 1,
                       age |-> 1]
           /\ agent = IF at = "lookup" THEN AgentInPass
                      ELSE IF at = "scan" THEN AgentAtScan
                      ELSE [AgentIdle EXCEPT !.pc = "sleep"]
           /\ task = [t \in Tasks |->
                        IF t = "A"
                        THEN [st |-> sa, weight |-> 1,
                              dsq_vtime |-> IF sa = "off" THEN 90 ELSE 0, cpu |-> 0]
                        ELSE [st |-> "ready", weight |-> 1, dsq_vtime |-> 100,
                              cpu |-> 1]]
           /\ G = [vtime_now |-> 100,
                   total_weight |-> IF sa = "off" THEN 1 ELSE 2,
                   max_capacity |-> 1024]
    /\ tctx = [t \in Tasks |-> NoTctx]
    /\ dsq = [d \in DsqIds |-> <<>>]
    /\ local = [c \in CPUs |-> <<>>]
    /\ last = NoEvent
    /\ calc = NoCalc
    /\ used = MaxEvents - AgentEvents
    /\ base = NoBaseline
    /\ kern = KernAttached
    /\ inflight = NoInflight

\* The agent at the head of its main loop, which it runs for as long as it is
\* left to; the capacity source may change at any moment.
InitLoop ==
    /\ cpu_capacity \in CapTables
    /\ G = [vtime_now |-> 0, total_weight |-> 0,
            max_capacity |-> MaxOfTable(cpu_capacity)]
    /\ task = [t \in Tasks |-> [st |-> "off", weight |-> 0, dsq_vtime |-> 0, cpu |-> 0]]
    /\ tctx = [t \in Tasks |-> NoTctx]
    /\ dsq = [d \in DsqIds |-> <<>>]
    /\ local = [c \in CPUs |-> <<>>]
    /\ last = NoEvent
    /\ agent = [AgentIdle EXCEPT !.pc = "loop"]
    /\ sysfs = [cap |-> cpu_capacity, changes |-> 0, age |-> 0]
    /\ calc = NoCalc
    /\ used = MaxEvents + 1
    /\ base = NoBaseline
    /\ kern = KernAttached
    /\ inflight = NoInflight

SpecLoop == InitLoop /\ [][AgentNext]_vars

(* ------------------------- homogeneous machines ----------------------- *)

\* How many handler invocations a run of the two machines holds.
HomogEvents == 6

\* Weights of the two tasks in the homogeneous comparison: A heavy, B light.
HomogWeights == [A |-> 3, B |-> 1]

\* Two machines whose CPUs all have capacity CAPACITY_SCALE, this scheduler
\* loaded on one and the single-queue scheduler on the other, after the
\* events enable(A), enable(B) at vtime 0.
InitHomog ==
    /\ cpu_capacity = [c \in CPUs |-> CAPACITY_SCALE]
    /\ task = [t \in Tasks |->
                 [st |-> "ready", weight |-> HomogWeights[t], dsq_vtime |-> 0,
                  cpu |-> 0]]
    /\ G = [vtime_now |-> 0, total_weight |-> HomogWeights.A + HomogWeights.B,
            max_capacity |-> CAPACITY_SCALE]
    /\ base = [NoBaseline EXCEPT !.loaded = TRUE,
                                 !.total_weight = HomogWeights.A + HomogWeights.B]
    /\ kern = KernAttached
    /\ inflight = NoInflight
    /\ tctx = [t \in Tasks |-> NoTctx]
    /\ dsq = [d \in DsqIds |-> <<>>]
    /\ local = [c \in CPUs |-> <<>>]
    /\ last = NoEvent
    /\ agent = AgentIdle
    /\ sysfs = [cap |-> cpu_capacity, changes |-> 0, age |-> 0]
    /\ calc = NoCalc
    /\ used = MaxEvents - HomogEvents

SpecHomog == InitHomog /\ [][CoreNext]_vars

(* ------------------------------ scenarios ----------------------------- *)

\* One handler applied to a task p = "A" in the middle of a run: the other
\* enabled tasks of the system show only in total_weight.
ScenVtimes == {0, 100, 10 * QMax(CAPACITY_SCALE), 1000000, U64_MAX - 1}

ScenSums == {0, 1, 3, 5, 10}

ScenWeights == {0, 1, 2, 4, 5}

ScenVes == {0, 120, 500000, U64_MAX - 5}

ScenNewWeights == {0, 1, 8}

\* The storage of a task that has been enqueued with weight w and has run
\* since (eevdf_running cleared its time stamp).
CachedTctx(w) ==
    [present |-> TRUE, weight_cached |-> EffWeight(w),
     inv_weight |-> InvWeight(EffWeight(w)), enq_ns |-> 0]

\* The storage of a task that waits in a queue: eevdf_enqueue created it,
\* filled the weight cache and stamped the enqueue time.
EnqueuedTctx(w) == [CachedTctx(w) EXCEPT !.enq_ns = 1]

InitScen ==
    /\ cpu_capacity \in CapTables
    /\ \E v \in ScenVtimes, sum \in ScenSums :
           G = [vtime_now |-> v, total_weight |-> sum,
                max_capacity |-> MaxOfTable(cpu_capacity)]
    /\ \E st \in {"off", "ready", "running"}, w \in ScenWeights, ve \in ScenVes,
          c \in CPUs, stored \in BOOLEAN :
           /\ task = [t \in Tasks |->
                        IF t = "A"
                        THEN [st |-> st, weight |-> w, dsq_vtime |-> ve, cpu |-> c]
                        ELSE [st |-> "off", weight |-> 0, dsq_vtime |-> 0, cpu |-> 0]]
           /\ tctx = [t \in Tasks |->
                        IF t = "A" /\ st # "off" /\ stored THEN CachedTctx(w)
                        ELSE NoTctx]
    /\ dsq = [d \in DsqIds |-> <<>>]
    /\ local = [c \in CPUs |-> <<>>]
    /\ last = NoEvent
    /\ agent = AgentIdle
    /\ sysfs = [cap |-> cpu_capacity, changes |-> 0, age |-> 0]
    /\ calc = NoCalc
    /\ used = MaxEvents - ScenEvents
    /\ base = NoBaseline
    /\ kern = KernAttached
    /\ inflight = NoInflight

ScenNext ==
    \/ \E w \in ScenWeights : Enable("A", w)
    \/ Disable("A")
    \/ \E w \in ScenNewWeights : SetWeight("A", w)
    \/ Enqueue("A")
    \/ \E s \in SliceLeft : Stopping("A", s)

SpecScen == InitScen /\ [][ScenNext]_vars

(* ------------------------- round-trip scenarios ----------------------- *)

\* ops.enable(p) immediately followed by ops.disable(p): the two handlers run
\* back to back on the same global state, with no other handler in between.
EnableDisable(t, w) ==
    /\ CoreFrame
    /\ task[t].st = "off"
    /\ LET e == eevdf_enable(G, task[t].dsq_vtime, w)
       IN  /\ G' = eevdf_disable(e.g, e.ve, w)
           /\ task' = [task EXCEPT ![t].st = "off", ![t].weight = w,
                                   ![t].dsq_vtime = e.ve]
    /\ tctx' = [tctx EXCEPT ![t] = NoTctx]
    /\ last' = Event("enable_disable", t, task[t].cpu, task[t].dsq_vtime, w)
    /\ base' = Twin(base_disable(base_enable(base, t, w), t, w))
    /\ UNCHANGED <<cpu_capacity, dsq, local>>

PairNext == \E w \in ScenWeights : EnableDisable("A", w)

SpecPair == InitScen /\ [][PairNext]_vars

(* -------------------------- concurrent handlers ----------------------- *)

\* The handlers of different tasks run on different CPUs under the run-queue
\* lock of their own CPU only, and the agent runs in user space on yet another
\* CPU; all of them read and write global_data[0] with plain loads and stores,
\* and the handlers read the entries of cpu_capacity that the agent writes one
\* by one.  Every access of gdata->vtime_now, gdata->total_weight and
\* gdata->max_capacity and every read of a cpu_capacity entry in the source
\* is a step of its own (a handler's pc numbers them in source order), and
\* the other parties may take steps in between.  The accesses are not
\* synchronised, so the build decides which of them reach memory and in which
\* order:
\*   - a read gives the word in memory, or the value the handler holds from
\*     its previous access of the word (the build reuses a register);
\*   - a read is made early, above accesses of the other words that precede
\*     it in the source (HoistV, HoistW), and its value is held until its use;
\*   - a store that the handler's next store of the word overwrites is made
\*     or dropped.
\* A call of a helper makes the handler forget the values it holds, and no
\* read moves above one; a store through p or tctx does the same for words
\* that the stored value does not equal.
\*
\* ConcEvents is the number of handler invocations of one run.
ConcEvents == 2

ConcFrame ==
    /\ used < MaxEvents \/ Unbounded
    /\ used' = IF Unbounded THEN used ELSE used + 1
    /\ UNCHANGED <<cpu_capacity, agent, sysfs, calc, base, kern>>

\* No handler is part-way through on any CPU.
Alone == \A u \in Handlers : inflight[u].op = "none"

\* The entry of a handler: its arguments, and p->scx.dsq_vtime as it finds it.
\* eevdf_enable skips its first read of vtime_now when dsq_vtime is not 0.
HandlerBegin(t, op, w, slice) ==
    /\ ConcFrame
    /\ inflight[t].op = "none"
    /\ inflight' = [inflight EXCEPT ![t] =
                      [@ EXCEPT !.op = op, !.w = w, !.slice = slice,
                                !.ve = task[t].dsq_vtime,
                                !.pc = IF op = "enable" /\ task[t].dsq_vtime # 0
                                       THEN 2 ELSE 1]]
    /\ UNCHANGED <<G, last>>

EnableBegin(t, w) ==
    /\ task[t].st = "off"
    /\ HandlerBegin(t, "enable", w, 0)
    /\ UNCHANGED <<task, tctx, dsq, local>>

DisableBegin(t) ==
    /\ task[t].st = "ready"
    /\ HandlerBegin(t, "disable", 0, 0)
    /\ UNCHANGED <<task, tctx, dsq, local>>

SetWeightBegin(t, w) ==
    /\ task[t].st # "off"
    /\ HandlerBegin(t, "set_weight", w, 0)
    /\ UNCHANGED <<task, tctx, dsq, local>>

\* eevdf_stopping on the CPU the task ran on, p->scx.slice being slice.
StoppingBegin(t, slice) ==
    /\ task[t].st = "running"
    /\ HandlerBegin(t, "stopping", 0, slice)
    /\ UNCHANGED <<task, tctx, dsq, local>>

\* The runtime takes the head of cpu's local queue, makes it the CPU's current
\* task and calls ops.running(p).
RunningBegin(cpu) ==
    /\ local[cpu] # <<>>
    /\ RunningOn(cpu) = {}
    /\ LET t == Head(local[cpu])
       IN  /\ HandlerBegin(t, "running", 0, 0)
           /\ task' = [task EXCEPT ![t].st = "running"]
    /\ local' = [local EXCEPT ![cpu] = Tail(@)]
    /\ UNCHANGED <<tctx, dsq>>

EnqueueBegin(t) ==
    /\ task[t].st = "ready"
    /\ HandlerBegin(t, "enqueue", 0, 0)
    /\ UNCHANGED <<task, tctx, dsq, local>>

\* eevdf_select_cpu with the results of the runtime's pickers (see SelectCpu).
SelectCpuBegin(t, dfl_cpu, dfl_idle, idle_cpu) ==
    /\ task[t].st = "ready"
    /\ dfl_idle => dfl_cpu \in CPUs /\ idle_cpu = -1
    /\ ~dfl_idle => dfl_cpu \in {task[t].cpu, -1}
    /\ ConcFrame
    /\ inflight[t].op = "none"
    /\ inflight' = [inflight EXCEPT ![t] =
                      [@ EXCEPT !.op = "select_cpu", !.ve = task[t].dsq_vtime,
                                !.cpu = dfl_cpu, !.idle = dfl_idle,
                                !.icpu = idle_cpu, !.pc = 1]]
    /\ UNCHANGED <<G, last, task, tctx, dsq, local>>

\* eevdf_dispatch(cpu, prev) with nr_slots the result of
\* scx_bpf_dispatch_nr_slots() (see Dispatch).
DispatchBegin(cpu, nr_slots) ==
    /\ \E d \in DsqIds : dsq[d] # <<>>
    /\ ConcFrame
    /\ inflight["-"].op = "none"
    /\ inflight' = [inflight EXCEPT !["-"] =
                      [@ EXCEPT !.op = "dispatch", !.cpu = cpu, !.slots = nr_slots,
                                !.pc = 1]]
    /\ UNCHANGED <<G, last, task, tctx, dsq, local>>

\* The values a read of gdata->vtime_now (total_weight, max_capacity) can give
\* handler f: the word in memory, or the value f holds.
LoadV(f) == {G.vtime_now} \cup (IF f.hasV THEN {f.V} ELSE {})

LoadW(f) == {G.total_weight} \cup (IF f.hasW THEN {f.W} ELSE {})

LoadM(f) == {G.max_capacity} \cup (IF f.hasM THEN {f.M} ELSE {})

\* Handler f after a read or a store of the word, at pc next.
HoldV(f, v, next) == [f EXCEPT !.V = v, !.hasV = TRUE, !.pc = next]

HoldW(f, w, next) == [f EXCEPT !.W = w, !.hasW = TRUE, !.pc = next]

HoldM(f, m, next) == [f EXCEPT !.M = m, !.hasM = TRUE, !.pc = next]

\* Handler f after a call of a helper: it holds no word of global_data[0].
Forget(f) == [f EXCEPT !.hasV = FALSE, !.hasW = FALSE, !.hasM = FALSE]

\* One access: the handler's new locals and the new global_data[0].  pc 0
\* means the handler has returned.
Access(f, g) == [f |-> f, g |-> g]

\* add_signed_vtime(gdata, f.delta) from pc k on: the read of the comparison
\* (k), then the store of the saturated value or the read of += / -= (k + 1),
\* then the store of += / -= (k + 2); next is the pc after the call.
add_signed_vtime_step(f, k, next) ==
    LET sub == abs_s64_to_u64(f.delta)
    IN  IF f.pc = k
        THEN {Access([HoldV(f, v, k + 1) EXCEPT
                         !.cmp = IF f.delta >= 0 THEN v > U64_MAX - f.delta
                                 ELSE v > sub], G) : v \in LoadV(f)}
        ELSE IF f.pc = k + 1
        THEN IF f.delta >= 0 /\ f.cmp
             THEN {Access(HoldV(f, U64_MAX, next), [G EXCEPT !.vtime_now = U64_MAX])}
             ELSE IF f.delta < 0 /\ ~f.cmp
             THEN {Access(HoldV(f, 0, next), [G EXCEPT !.vtime_now = 0])}
             ELSE {Access(HoldV(f, v, k + 2), G) : v \in LoadV(f)}
        ELSE LET v == IF f.delta >= 0 THEN ToU64(f.V + f.delta) ELSE ToU64(f.V - sub)
             IN  {Access(HoldV(f, v, next), [G EXCEPT !.vtime_now = v])}

\* max_cap = gdata->max_capacity ? gdata->max_capacity : CAPACITY_SCALE from
\* pc k on: the read of the test (k), then the read of the value (k + 1); next
\* is the pc after.  max_capacity, once it is not 0, is never 0 again (the
\* agent stores 1024 for a maximum of 0), so the second read finds no 0.
max_cap_step(f, k, next) ==
    IF f.pc = k
    THEN {IF m = 0 THEN Access([HoldM(f, m, next) EXCEPT !.max_cap = CAPACITY_SCALE], G)
          ELSE Access(HoldM(f, m, k + 1), G) : m \in LoadM(f)}
    ELSE {Access([HoldM(f, m, next) EXCEPT !.max_cap = m], G) : m \in LoadM(f)}

\* get_cpu_cap(cpu) from pc k on: after the call of bpf_map_lookup_elem the
\* read of the test, cap && *cap (k), then the read of return *cap (k + 1),
\* which gives the entry in memory or the value the test read (the build
\* reuses the register); next is the pc after.  f.cap is what the call
\* returns: CAPACITY_SCALE when the test read 0, else the value of the second
\* read, which is 0 when the agent has set the entry to 0 since the test.
get_cpu_cap_step(f, cpu, k, next) ==
    IF cpu \notin DOMAIN cpu_capacity
    THEN {Access([Forget(f) EXCEPT !.cap = CAPACITY_SCALE, !.pc = next], G)}
    ELSE IF f.pc = k
    THEN IF cpu_capacity[cpu] = 0
         THEN {Access([Forget(f) EXCEPT !.cap = CAPACITY_SCALE, !.pc = next], G)}
         ELSE {Access([Forget(f) EXCEPT !.C = cpu_capacity[cpu], !.pc = k + 1], G)}
    ELSE {Access([f EXCEPT !.cap = c, !.C = 0, !.pc = next], G)
          : c \in {cpu_capacity[cpu], f.C}}

\* desired_dsq_for_task up to its call of get_cpu_cap: the queue the lag
\* chooses, 0 when the lag is near neutral and the class of the task's CPU
\* decides.
LagClass(vnow, ve, max_cap) ==
    LET lag_boost == LagBoost(max_cap)
        lag       == LagOf(vnow, ve)
    IN  IF lag > lag_boost THEN EEVDF_DSQ_BIG
        ELSE IF lag < -lag_boost THEN EEVDF_DSQ_LITTLE
        ELSE 0

\* eevdf_enable, one access of global_data[0] at a time:
\*   1  p->scx.dsq_vtime = gdata->vtime_now            (only when it was 0)
\*   2  lag = (s64)gdata->vtime_now - (s64)p->scx.dsq_vtime
\*   3  new_sum = gdata->total_weight + weight
\*   4-6  add_signed_vtime(gdata, -div_signed_u64(lag, new_sum))   (new_sum != 0)
\*   7  gdata->total_weight = new_sum
\* The store of 1 through p stores the value of vtime_now just read, which
\* the handler goes on holding.
eevdf_enable_step(f) ==
    LET weight == IF f.w = 0 THEN 1 ELSE f.w
    IN  IF f.pc = 1
        THEN {Access([HoldV(f, v, 2) EXCEPT !.ve = v, !.hasW = FALSE], G) : v \in LoadV(f)}
        ELSE IF f.pc = 2
        THEN {Access([HoldV(f, v, 3) EXCEPT !.lag = LagOf(v, f.ve)], G) : v \in LoadV(f)}
        ELSE IF f.pc = 3
        THEN {LET new_sum == ToU64(w + weight)
              IN  Access([HoldW(f, w, IF new_sum # 0 THEN 4 ELSE 7) EXCEPT
                             !.sum = new_sum,
                             !.delta = ToS64(-div_signed_u64(f.lag, new_sum))], G)
              : w \in LoadW(f)}
        ELSE IF f.pc \in 4..6
        THEN add_signed_vtime_step(f, 4, 7)
        ELSE {Access(HoldW(f, f.sum, 0), [G EXCEPT !.total_weight = f.sum])}

\* eevdf_disable, one access at a time:
\*   1  lag = (s64)gdata->vtime_now - (s64)p->scx.dsq_vtime
\*   2  gdata->total_weight >= weight
\*   3  gdata->total_weight - weight                   (when 2 held)
\*   4  gdata->total_weight = new_sum
\*   5-7  add_signed_vtime(gdata, div_signed_u64(lag, new_sum))    (new_sum != 0)
eevdf_disable_step(f, weight0) ==
    LET weight == IF weight0 = 0 THEN 1 ELSE weight0
    IN  IF f.pc = 1
        THEN {Access([HoldV(f, v, 2) EXCEPT !.lag = LagOf(v, f.ve)], G) : v \in LoadV(f)}
        ELSE IF f.pc = 2
        THEN {Access([HoldW(f, w, IF w >= weight THEN 3 ELSE 4) EXCEPT !.sum = 0], G)
              : w \in LoadW(f)}
        ELSE IF f.pc = 3
        THEN {Access([HoldW(f, w, 4) EXCEPT !.sum = ToU64(w - weight)], G)
              : w \in LoadW(f)}
        ELSE IF f.pc = 4
        THEN {Access([HoldW(f, f.sum, IF f.sum # 0 THEN 5 ELSE 0) EXCEPT
                         !.delta = div_signed_u64(f.lag, f.sum)],
                     [G EXCEPT !.total_weight = f.sum])}
        ELSE add_signed_vtime_step(f, 5, 0)

\* eevdf_set_weight, one access at a time:
\*   1  old_sum = gdata->total_weight      (the call of get_task_ctx follows)
\*   2  gdata->total_weight >= old_weight
\*   3, 4  gdata->total_weight -= old_weight           (when 2 held)
\*   5, 6  gdata->total_weight += new_weight
\*   7  new_sum = gdata->total_weight
\*   8  lag = (s64)gdata->vtime_now - (s64)p->scx.dsq_vtime   (both sums != 0)
\*   9-11  add_signed_vtime(gdata, diff)
\* The store of 4 is overwritten by that of 6: a build that drops it goes on
\* with the value it would have stored.
eevdf_set_weight_step(f, old_weight0) ==
    LET old_weight == IF old_weight0 = 0 THEN 1 ELSE old_weight0
        new_weight == IF f.w = 0 THEN 1 ELSE f.w
    IN  IF f.pc = 1
        THEN {Access(Forget([f EXCEPT !.old = w, !.pc = 2]), G) : w \in LoadW(f)}
        ELSE IF f.pc = 2
        THEN {Access(HoldW(f, w, IF w >= old_weight THEN 3 ELSE 5), G) : w \in LoadW(f)}
        ELSE IF f.pc = 3
        THEN {Access(HoldW(f, w, 4), G) : w \in LoadW(f)}
        ELSE IF f.pc = 4
        THEN LET w == ToU64(f.W - old_weight)
             IN  {Access(HoldW(f, w, 5), [G EXCEPT !.total_weight = w]),
                  Access(HoldW(f, w, 6), G)}
        ELSE IF f.pc = 5
        THEN {Access(HoldW(f, w, 6), G) : w \in LoadW(f)}
        ELSE IF f.pc = 6
        THEN LET w == ToU64(f.W + new_weight)
             IN  {Access(HoldW(f, w, 7), [G EXCEPT !.total_weight = w])}
        ELSE IF f.pc = 7
        THEN {Access([HoldW(f, w, IF f.old = 0 \/ w = 0 THEN 0 ELSE 8) EXCEPT
                         !.sum = w], G) : w \in LoadW(f)}
        ELSE IF f.pc = 8
        THEN {LET lag == LagOf(v, f.ve)
              IN  Access([HoldV(f, v, 9) EXCEPT
                             !.lag = lag,
                             !.delta = ToS64(div_signed_u64(lag, f.old)
                                             - div_signed_u64(lag, f.sum))], G)
              : v \in LoadV(f)}
        ELSE add_signed_vtime_step(f, 9, 0)

\* eevdf_stopping on CPU cpu, one access at a time (f.svc is svc_vtime):
\*   1, 2  cap = get_cpu_cap(cpu)          (svc_vtime and the advance of
\*         p->scx.dsq_vtime follow)
\*   3  if (gdata->total_weight)
\*   4  svc_vtime / gdata->total_weight    (a division by 0 gives 0 in BPF)
\*   5, 6  gdata->vtime_now += ...
\* C leaves the order of the reads of 4 and 5 open.
eevdf_stopping_step(f, cpu) ==
    IF f.pc \in 1..2
    THEN {Access(IF r.f.pc = 3 THEN [r.f EXCEPT !.svc = SvcVtime(f.slice, r.f.cap)]
                 ELSE r.f, r.g)
          : r \in get_cpu_cap_step(f, cpu, 1, 3)}
    ELSE IF f.pc = 3
    THEN {Access(HoldW(f, w, IF w # 0 THEN 4 ELSE 0), G) : w \in LoadW(f)}
    ELSE IF f.pc = 4
    THEN {Access([HoldW(f, w, 5) EXCEPT !.delta = IF w = 0 THEN 0 ELSE f.svc \div w], G)
          : w \in LoadW(f)}
    ELSE IF f.pc = 5
    THEN {Access(HoldV(f, v, 6), G) : v \in LoadV(f)}
    ELSE LET v == ToU64(f.V + f.delta)
         IN  {Access(HoldV(f, v, 0), [G EXCEPT !.vtime_now = v])}

\* eevdf_running, one access at a time:
\*   1  time_before(gdata->vtime_now, p->scx.dsq_vtime)
\*   2  gdata->vtime_now = p->scx.dsq_vtime            (when 1 held)
eevdf_running_step(f) ==
    IF f.pc = 1
    THEN {Access(HoldV(f, v, IF time_before(v, f.ve) THEN 2 ELSE 0), G) : v \in LoadV(f)}
    ELSE {Access(HoldV(f, f.ve, 0), [G EXCEPT !.vtime_now = f.ve])}

\* eevdf_enqueue, one access at a time:
\*   1  v_now = gdata->vtime_now           (the call of get_task_ctx follows)
\*   2, 3  max_cap = gdata->max_capacity ? gdata->max_capacity : CAPACITY_SCALE
\*   4  lag = (s64)gdata->vtime_now - ...  (desired_dsq_for_task, after the
\*      stores to the task's storage and to p->scx.dsq_vtime)
\*   5, 6  get_cpu_cap(scx_bpf_task_cpu(p))            (near-neutral lag only)
\* ve is the clamped p->scx.dsq_vtime the handler has stored before 4, cpu the
\* task's CPU; f.des is the queue chosen.
eevdf_enqueue_step(f, ve, cpu) ==
    IF f.pc = 1
    THEN {Access(Forget([f EXCEPT !.v_now = v, !.pc = 2]), G) : v \in LoadV(f)}
    ELSE IF f.pc \in 2..3
    THEN {Access([r.f EXCEPT !.hasV = FALSE, !.hasW = FALSE], r.g)
          : r \in max_cap_step(f, 2, 4)}
    ELSE IF f.pc = 4
    THEN {LET d == LagClass(v, ve, f.max_cap)
          IN  Access(IF d = 0 THEN HoldV(f, v, 5)
                     ELSE [HoldV(f, v, 0) EXCEPT !.des = d], G)
          : v \in LoadV(f)}
    ELSE {Access(IF r.f.pc = 0
                 THEN [r.f EXCEPT !.des = class_dsq_id(r.f.cap, r.f.max_cap)]
                 ELSE r.f, r.g)
          : r \in get_cpu_cap_step(f, cpu, 5, 0)}

\* Handler f of eevdf_select_cpu once selected_dsq and desired_dsq are set:
\* it goes on to scx_bpf_pick_idle_cpu and the capacity of the CPU picked
\* (pc 8), or returns.
select_cpu_pick(f) ==
    [f EXCEPT !.pc = IF ~f.idle /\ f.des # f.sel /\ f.icpu >= 0 THEN 8 ELSE 0]

\* eevdf_select_cpu, one access at a time:
\*   1, 2  max_cap = gdata && gdata->max_capacity ? gdata->max_capacity : ...
\*   3, 4  cpu_cap = get_cpu_cap(cpu)                   (cpu >= 0 only)
\*   5  lag = (s64)gdata->vtime_now - ...               (desired_dsq_for_task)
\*   6, 7  get_cpu_cap(scx_bpf_task_cpu(p))             (near-neutral lag only)
\*   8, 9  get_cpu_cap(idle_cpu)     (!is_idle, desired_dsq != selected_dsq
\*         and idle_cpu >= 0 only)
\* task_cpu is the task's CPU; f.sel and f.des are selected_dsq (of the
\* default picker's CPU) and desired_dsq.
eevdf_select_cpu_step(f, task_cpu) ==
    IF f.pc \in 1..2
    THEN {Access(IF r.f.pc = 5
                 THEN [r.f EXCEPT !.sel = class_dsq_id(CAPACITY_SCALE, r.f.max_cap)]
                 ELSE r.f, r.g)
          : r \in max_cap_step(f, 1, IF f.cpu >= 0 THEN 3 ELSE 5)}
    ELSE IF f.pc \in 3..4
    THEN {Access(IF r.f.pc = 5
                 THEN [r.f EXCEPT !.sel = class_dsq_id(r.f.cap, r.f.max_cap)]
                 ELSE r.f, r.g)
          : r \in get_cpu_cap_step(f, f.cpu, 3, 5)}
    ELSE IF f.pc = 5
    THEN {LET d == LagClass(v, f.ve, f.max_cap)
          IN  Access(IF d = 0 THEN HoldV(f, v, 6)
                     ELSE select_cpu_pick([HoldV(f, v, 0) EXCEPT !.des = d]), G)
          : v \in LoadV(f)}
    ELSE IF f.pc \in 6..7
    THEN {Access(IF r.f.pc = 0
                 THEN select_cpu_pick([r.f EXCEPT
                                          !.des = class_dsq_id(r.f.cap, r.f.max_cap)])
                 ELSE r.f, r.g)
          : r \in get_cpu_cap_step(f, task_cpu, 6, 0)}
    ELSE get_cpu_cap_step(f, f.icpu, 8, 0)

\* What eevdf_select_cpu returns and does at its end (the record of
\* eevdf_select_cpu): f.cap is the capacity read for idle_cpu when
\* scx_bpf_pick_idle_cpu was called and found a CPU.
eevdf_select_cpu_ret(f) ==
    LET picked       == ~f.idle /\ f.des # f.sel
        idle_dsq     == class_dsq_id(f.cap, f.max_cap)
        retarget     == picked /\ f.icpu >= 0 /\ idle_dsq = f.des
        is_idle      == f.idle \/ retarget
        selected_dsq == IF retarget THEN idle_dsq ELSE f.sel
        insert       == is_idle /\ f.des = selected_dsq
    IN  [cpu |-> IF retarget THEN f.icpu ELSE f.cpu, picked |-> picked,
         insert |-> insert, stat_inc |-> IF insert THEN <<0>> ELSE <<>>]

\* eevdf_dispatch, one access at a time:
\*   1, 2  max_cap = gdata && gdata->max_capacity ? gdata->max_capacity : ...
\*   3, 4  cap = get_cpu_cap(cpu)
eevdf_dispatch_step(f) ==
    IF f.pc \in 1..2
    THEN max_cap_step(f, 1, 3)
    ELSE get_cpu_cap_step(f, f.cpu, 3, 0)

\* global_data[0] as a handler that only reads it has seen it: vtime_now and
\* max_capacity are the values its reads gave.
ViewOf(v_now, max_cap) ==
    [vtime_now |-> v_now, total_weight |-> G.total_weight, max_capacity |-> max_cap]

\* The pcs at which a build makes a read of vtime_now (total_weight) that the
\* source has further down: the access at the pc is of another word, and no
\* call and no store of the word lies between it and the read.
HoistV(f) ==
    IF f.op = "enable" THEN {3}
    ELSE IF f.op = "disable" THEN 2..4
    ELSE IF f.op = "set_weight" THEN 2..7
    ELSE IF f.op = "stopping" THEN 3..4
    ELSE {}

HoistW(f) ==
    IF f.op = "enable" THEN {2}
    ELSE IF f.op = "disable" THEN {1}
    ELSE {}

\* A handler in flight makes its next access; other variables are the
\* handlers' own.
ConcStep ==
    UNCHANGED <<cpu_capacity, agent, sysfs, calc, base, kern, used>>

\* The handler of task t reads vtime_now early and holds the value.
HoistLoadV(t) ==
    /\ ConcStep
    /\ inflight[t].pc \in HoistV(inflight[t])
    /\ ~(inflight[t].hasV /\ inflight[t].V = G.vtime_now)
    /\ inflight' = [inflight EXCEPT ![t].hasV = TRUE, ![t].V = G.vtime_now]
    /\ UNCHANGED <<G, task, tctx, dsq, local, last>>

\* The handler of task t reads total_weight early and holds the value.
HoistLoadW(t) ==
    /\ ConcStep
    /\ inflight[t].pc \in HoistW(inflight[t])
    /\ ~(inflight[t].hasW /\ inflight[t].W = G.total_weight)
    /\ inflight' = [inflight EXCEPT ![t].hasW = TRUE, ![t].W = G.total_weight]
    /\ UNCHANGED <<G, task, tctx, dsq, local, last>>

\* The handler of task t has returned: nothing of it is in flight.
Returned(t) == NoInflight[t]

\* The next access of eevdf_enable(t); with its last store the handler returns.
\* (last shows global_data[0] as a handler's last access found it.)
EnableStep(t) ==
    /\ ConcStep
    /\ inflight[t].op = "enable"
    /\ \E r \in eevdf_enable_step(inflight[t]) :
           /\ G' = r.g
           /\ IF r.f.pc # 0
              THEN /\ inflight' = [inflight EXCEPT ![t] = r.f]
                   /\ UNCHANGED <<task, last>>
              ELSE /\ inflight' = [inflight EXCEPT ![t] = Returned(t)]
                   /\ task' = [task EXCEPT ![t].st = "ready", ![t].weight = r.f.w,
                                           ![t].dsq_vtime = r.f.ve]
                   /\ last' = Event("enable", t, task[t].cpu, task[t].dsq_vtime, r.f.w)
    /\ UNCHANGED <<tctx, dsq, local>>

\* The next access of eevdf_disable(t); at its return the task's storage is
\* deleted.
DisableStep(t) ==
    /\ ConcStep
    /\ inflight[t].op = "disable"
    /\ \E r \in eevdf_disable_step(inflight[t], task[t].weight) :
           /\ G' = r.g
           /\ IF r.f.pc # 0
              THEN /\ inflight' = [inflight EXCEPT ![t] = r.f]
                   /\ UNCHANGED <<task, tctx, last>>
              ELSE /\ inflight' = [inflight EXCEPT ![t] = Returned(t)]
                   /\ task' = [task EXCEPT ![t].st = "off"]
                   /\ tctx' = [tctx EXCEPT ![t] = NoTctx]
                   /\ last' = Event("disable", t, task[t].cpu, task[t].dsq_vtime,
                                    task[t].weight)
    /\ UNCHANGED <<dsq, local>>

\* The next access of eevdf_set_weight(t, w); the weight cache is the task's
\* own, and the runtime stores the new weight after the handler's return.
SetWeightStep(t) ==
    /\ ConcStep
    /\ inflight[t].op = "set_weight"
    /\ \E r \in eevdf_set_weight_step(inflight[t], task[t].weight) :
           /\ G' = r.g
           /\ IF r.f.pc # 0
              THEN /\ inflight' = [inflight EXCEPT ![t] = r.f]
                   /\ UNCHANGED <<task, tctx, last>>
              ELSE /\ inflight' = [inflight EXCEPT ![t] = Returned(t)]
                   /\ tctx' = [tctx EXCEPT ![t] =
                                 eevdf_set_weight(G, task[t].dsq_vtime, task[t].weight,
                                                  r.f.w, tctx[t]).tc]
                   /\ task' = [task EXCEPT ![t].weight = r.f.w]
                   /\ last' = [Event("set_weight", t, task[t].cpu, task[t].dsq_vtime,
                                     task[t].weight) EXCEPT !.wnew = r.f.w]
    /\ UNCHANGED <<dsq, local>>

\* The next access of eevdf_stopping(t); once get_cpu_cap has returned the
\* handler advances p->scx.dsq_vtime, and at its return the task is off its
\* CPU.
StoppingStep(t) ==
    /\ ConcStep
    /\ inflight[t].op = "stopping"
    /\ \E r \in eevdf_stopping_step(inflight[t], task[t].cpu) :
           /\ G' = r.g
           /\ IF r.f.pc # 0
              THEN /\ inflight' = [inflight EXCEPT ![t] = r.f]
                   /\ IF inflight[t].pc \in 1..2 /\ r.f.pc = 3
                      THEN LET own == eevdf_stopping(G, task[t].dsq_vtime,
                                                     task[t].weight, r.f.slice,
                                                     r.f.cap, tctx[t])
                           IN  /\ task' = [task EXCEPT ![t].dsq_vtime = own.ve]
                               /\ tctx' = [tctx EXCEPT ![t] = own.tc]
                      ELSE UNCHANGED <<task, tctx>>
                   /\ UNCHANGED last
              ELSE /\ inflight' = [inflight EXCEPT ![t] = Returned(t)]
                   /\ task' = [task EXCEPT ![t].st = "ready"]
                   /\ last' = [Event("stopping", t, task[t].cpu, r.f.ve,
                                     task[t].weight) EXCEPT !.slice = r.f.slice]
                   /\ UNCHANGED tctx
    /\ UNCHANGED <<dsq, local>>

\* The next access of eevdf_running(t); the latency sample follows its last
\* access.
RunningStep(t) ==
    /\ ConcStep
    /\ inflight[t].op = "running"
    /\ \E r \in eevdf_running_step(inflight[t]) :
           /\ G' = r.g
           /\ IF r.f.pc # 0
              THEN /\ inflight' = [inflight EXCEPT ![t] = r.f]
                   /\ UNCHANGED <<tctx, last>>
              ELSE LET s == eevdf_running_latency(tctx[t])
                   IN  /\ inflight' = [inflight EXCEPT ![t] = Returned(t)]
                       /\ tctx' = [tctx EXCEPT ![t] = s.tc]
                       /\ last' = [Event("running", t, task[t].cpu, task[t].dsq_vtime,
                                         task[t].weight) EXCEPT !.stat_inc = s.stat_inc]
    /\ UNCHANGED <<task, dsq, local>>

\* p->scx.dsq_vtime, v_d and the task's storage as eevdf_enqueue(t) computes
\* them from the v_now and max_cap it read (the queue of this record is not
\* the handler's: that one is f.des).
EnqueueOwn(t, f) ==
    eevdf_enqueue(ViewOf(f.v_now, f.max_cap), task[t].dsq_vtime, task[t].weight,
                  task[t].cpu, cpu_capacity, tctx[t])

\* The next access of eevdf_enqueue(t); after its last read the handler
\* inserts the task into the queue it chose.
EnqueueStep(t) ==
    /\ ConcStep
    /\ inflight[t].op = "enqueue"
    /\ \E r \in eevdf_enqueue_step(inflight[t], EnqueueOwn(t, inflight[t]).ve,
                                    task[t].cpu) :
           /\ G' = r.g
           /\ IF r.f.pc # 0
              THEN /\ inflight' = [inflight EXCEPT ![t] = r.f]
                   /\ UNCHANGED <<task, tctx, dsq, last>>
              ELSE LET e  == EnqueueOwn(t, r.f)
                       id == r.f.des
                   IN  /\ inflight' = [inflight EXCEPT ![t] = Returned(t)]
                       /\ task' = [task EXCEPT ![t].st = "queued",
                                               ![t].dsq_vtime = e.ve]
                       /\ tctx' = [tctx EXCEPT ![t] = e.tc]
                       /\ dsq' = [dsq EXCEPT ![id] = EnqueueInsert(@, t, e.vd)]
                       /\ last' = [Event("enqueue", t, task[t].cpu, task[t].dsq_vtime,
                                         task[t].weight)
                                     EXCEPT !.dsq = id, !.vd = e.vd, !.stat_inc = <<1>>]
    /\ UNCHANGED local

\* The next access of eevdf_select_cpu(t); after its last read the handler
\* compares the classes and may insert the task into a local queue.
SelectCpuStep(t) ==
    /\ ConcStep
    /\ inflight[t].op = "select_cpu"
    /\ \E r \in eevdf_select_cpu_step(inflight[t], task[t].cpu) :
           /\ G' = r.g
           /\ IF r.f.pc # 0
              THEN /\ inflight' = [inflight EXCEPT ![t] = r.f]
                   /\ UNCHANGED <<task, local, last>>
              ELSE LET s == eevdf_select_cpu_ret(r.f)
                       found_idle == \/ r.f.idle /\ s.cpu = r.f.cpu
                                     \/ s.picked /\ r.f.icpu >= 0 /\ s.cpu = r.f.icpu
                   IN  /\ inflight' = [inflight EXCEPT ![t] = Returned(t)]
                       /\ task' = [task EXCEPT
                                     ![t].st = IF s.insert THEN "local" ELSE "ready",
                                     ![t].cpu = IF s.cpu >= 0 THEN s.cpu ELSE @]
                       /\ local' = IF s.insert
                                   THEN [local EXCEPT ![s.cpu] = Append(@, t)]
                                   ELSE local
                       /\ last' = [Event("select_cpu", t, s.cpu, task[t].dsq_vtime,
                                         task[t].weight)
                                     EXCEPT !.dsq = r.f.des,
                                            !.moved = IF s.insert THEN <<t>> ELSE <<>>,
                                            !.stat_inc = s.stat_inc,
                                            !.idle = found_idle]
    /\ UNCHANGED <<tctx, dsq>>

\* The next access of eevdf_dispatch; after its last read the handler moves
\* tasks to the local queue of its CPU.
DispatchStep ==
    /\ ConcStep
    /\ inflight["-"].op = "dispatch"
    /\ \E r \in eevdf_dispatch_step(inflight["-"]) :
           /\ G' = r.g
           /\ IF r.f.pc # 0
              THEN /\ inflight' = [inflight EXCEPT !["-"] = r.f]
                   /\ UNCHANGED <<task, dsq, local, last>>
              ELSE LET d == eevdf_dispatch_moves(r.f.cap, r.f.max_cap, r.f.slots, dsq)
                   IN  /\ inflight' = [inflight EXCEPT !["-"] = Returned("-")]
                       /\ dsq' = d.q
                       /\ local' = [local EXCEPT ![r.f.cpu] =
                                       @ \o [i \in 1..Len(d.moved) |-> d.moved[i].t]]
                       /\ task' = [t \in Tasks |->
                                     IF t \in MovedTasks(d.moved)
                                     THEN [task[t] EXCEPT !.st = "local",
                                                          !.cpu = r.f.cpu]
                                     ELSE task[t]]
                       /\ last' = [Event("dispatch", "-", r.f.cpu, 0, 0)
                                     EXCEPT !.moved = d.moved, !.slots = r.f.slots,
                                            !.q0 = dsq, !.stat_inc = d.stat_inc]
    /\ UNCHANGED tctx

ConcWeights == {1, 3}

\* Two tasks, each off, ready or running on a CPU of its own; total_weight is
\* the sum of the weights of those enabled.  A is new (dsq_vtime 0) or behind
\* vtime_now, B is at vtime_now.
InitConc ==
    /\ cpu_capacity \in CapTables
    /\ \E sa \in {"off", "ready", "running"}, sb \in {"off", "ready", "running"},
          wa \in ConcWeights, wb \in ConcWeights, va \in {0, 90} :
           /\ task = [t \in Tasks |->
                        [st |-> IF t = "A" THEN sa ELSE sb,
                         weight |-> IF t = "A" THEN wa ELSE wb,
                         dsq_vtime |-> IF t = "A" THEN va ELSE 100,
                         cpu |-> IF t = "A" THEN 0 ELSE 1]]
           /\ G = [vtime_now |-> 100,
                   total_weight |-> (IF sa = "off" THEN 0 ELSE wa)
                                    + (IF sb = "off" THEN 0 ELSE wb),
                   max_capacity |-> MaxOfTable(cpu_capacity)]
    /\ tctx = [t \in Tasks |-> NoTctx]
    /\ dsq = [d \in DsqIds |-> <<>>]
    /\ local = [c \in CPUs |-> <<>>]
    /\ last = NoEvent
    /\ agent = AgentIdle
    /\ sysfs = [cap |-> cpu_capacity, changes |-> 0, age |-> 0]
    /\ calc = NoCalc
    /\ used = MaxEvents - ConcEvents
    /\ base = NoBaseline
    /\ kern = KernAttached
    /\ inflight = NoInflight

ConcNext ==
    \/ \E t \in Tasks, w \in ConcWeights : EnableBegin(t, w)
    \/ \E t \in Tasks : DisableBegin(t)
    \/ \E t \in Tasks, w \in ConcWeights : SetWeightBegin(t, w)
    \/ \E t \in Tasks, s \in SliceLeft : StoppingBegin(t, s)
    \/ \E t \in Tasks : EnableStep(t)
    \/ \E t \in Tasks : DisableStep(t)
    \/ \E t \in Tasks : SetWeightStep(t)
    \/ \E t \in Tasks : StoppingStep(t)
    \/ \E t \in Tasks : HoistLoadV(t)
    \/ \E t \in Tasks : HoistLoadW(t)

SpecConc == InitConc /\ [][ConcNext]_vars

(* ------------------- the agent beside the handlers -------------------- *)

\* The callbacks of eevdf_ops one at a time, each one access of
\* global_data[0] or of cpu_capacity at a time.
SerialNext ==
    \/ \E t \in Tasks, c \in PickedCpus, idle \in BOOLEAN, ic \in PickedCpus :
           Alone /\ SelectCpuBegin(t, c, idle, ic)
    \/ \E t \in Tasks, w \in Weights : Alone /\ EnableBegin(t, w)
    \/ \E t \in Tasks : Alone /\ DisableBegin(t)
    \/ \E t \in Tasks, w \in Weights : Alone /\ SetWeightBegin(t, w)
    \/ \E t \in Tasks : Alone /\ EnqueueBegin(t)
    \/ \E c \in CPUs, n \in DispatchSlots : Alone /\ DispatchBegin(c, n)
    \/ \E c \in CPUs : Alone /\ RunningBegin(c)
    \/ \E t \in Tasks, s \in SliceLeft : Alone /\ StoppingBegin(t, s)
    \/ \E t \in Tasks : SelectCpuStep(t)
    \/ \E t \in Tasks : EnableStep(t)
    \/ \E t \in Tasks : DisableStep(t)
    \/ \E t \in Tasks : SetWeightStep(t)
    \/ \E t \in Tasks : EnqueueStep(t)
    \/ DispatchStep
    \/ \E t \in Tasks : RunningStep(t)
    \/ \E t \in Tasks : StoppingStep(t)
    \/ \E t \in Tasks : HoistLoadV(t)
    \/ \E t \in Tasks : HoistLoadW(t)

\* The agent's steps fall anywhere between the accesses of a handler.
SpecAgent == InitAgent /\ [][SerialNext \/ AgentNext]_vars

(* ------------------------- saturated machines ------------------------- *)

\* vtime_now up to which a stopping task may have consumed part of its slice
\* in these runs; beyond it tasks are switched out before they consume any.
StarveVtimeMax == 300

\* What is left of the slice at a stopping: all of it (the task was switched
\* out at once) or half of it.
StarveSlices == {SCX_SLICE_DFL, SCX_SLICE_DFL \div 2}

\* A machine whose CPUs are all of one class (every capacity is the maximum),
\* with task A (weight 3) ahead of V by more than the lag boost and task B
\* (weight 1) at V: A's deadline is the earlier one.
InitStarve ==
    /\ cpu_capacity = [c \in CPUs |-> CAPACITY_SCALE]
    /\ G = [vtime_now |-> 100, total_weight |-> 4, max_capacity |-> CAPACITY_SCALE]
    /\ task = [t \in Tasks |->
                 [st |-> "ready", weight |-> IF t = "A" THEN 3 ELSE 1,
                  dsq_vtime |-> IF t = "A" THEN 110 ELSE 100, cpu |-> 0]]
    /\ tctx = [t \in Tasks |-> NoTctx]
    /\ dsq = [d \in DsqIds |-> <<>>]
    /\ local = [c \in CPUs |-> <<>>]
    /\ last = NoEvent
    /\ agent = AgentIdle
    /\ sysfs = [cap |-> cpu_capacity, changes |-> 0, age |-> 0]
    /\ calc = NoCalc
    /\ used = MaxEvents + 1
    /\ base = NoBaseline
    /\ kern = KernAttached
    /\ inflight = NoInflight

StarveDispatch(c) == \E n \in DispatchSlots : Dispatch(c, n)

StarveStopping(t) ==
    \E s \in StarveSlices :
        /\ s = SCX_SLICE_DFL \/ G.vtime_now < StarveVtimeMax
        /\ Stopping(t, s)

StarveNext ==
    \/ \E t \in Tasks : Enqueue(t)
    \/ \E c \in CPUs : StarveDispatch(c)
    \/ \E c \in CPUs : Running(c)
    \/ \E t \in Tasks : StarveStopping(t)

\* Every CPU keeps invoking dispatch while a task waits, and dispatched tasks
\* run and stop.
StarveFairness ==
    /\ \A c \in CPUs : WF_vars(StarveDispatch(c))
    /\ \A c \in CPUs : WF_vars(Running(c))
    /\ \A t \in Tasks : WF_vars(StarveStopping(t))

SpecStarve == InitStarve /\ [][StarveNext]_vars /\ StarveFairness

(* -------------------------- dispatch scenarios ------------------------ *)

\* Queue lengths at the start of a dispatch, up to one more than a batch.
QueueLens == {0, 1, 2, 3, DISPATCH_BATCH_MAX, DISPATCH_BATCH_MAX + 1}

\* Other tasks of the system, waiting in the two queues in deadline order.
BigNames == <<"b1", "b2", "b3", "b4", "b5", "b6", "b7", "b8", "b9">>

LittleNames == <<"l1", "l2", "l3", "l4", "l5", "l6", "l7", "l8", "l9">>

QueueOf(names, n, first_vd) ==
    [i \in 1..n |-> [t |-> names[i], vd |-> first_vd + (10 * i)]]

InitDispatch ==
    /\ cpu_capacity \in CapTables
    /\ \E nb \in QueueLens, nl \in QueueLens :
           /\ dsq = [d \in DsqIds |->
                       IF d = EEVDF_DSQ_BIG THEN QueueOf(BigNames, nb, 5)
                       ELSE QueueOf(LittleNames, nl, 0)]
           /\ G = [vtime_now |-> 0, total_weight |-> nb + nl,
                   max_capacity |-> MaxOfTable(cpu_capacity)]
    /\ task = [t \in Tasks |-> [st |-> "off", weight |-> 0, dsq_vtime |-> 0, cpu |-> 0]]
    /\ tctx = [t \in Tasks |-> NoTctx]
    /\ local = [c \in CPUs |-> <<>>]
    /\ last = NoEvent
    /\ agent = AgentIdle
    /\ sysfs = [cap |-> cpu_capacity, changes |-> 0, age |-> 0]
    /\ calc = NoCalc
    /\ used = MaxEvents - ScenEvents
    /\ base = NoBaseline
    /\ kern = KernAttached
    /\ inflight = NoInflight

SpecDispatch ==
    InitDispatch /\ [][\E c \in CPUs, n \in DispatchSlots : Dispatch(c, n)]_vars

(* --------------------------- running scenarios ------------------------ *)

\* Values of vtime_now and dsq_vtime of a run: early ones, and ones at the end
\* of the word (a clock that has run long, a v_e about to pass the end).
RunVtimes == {0, 100, 400, 1000000, U64_MAX - 1}

RunVes == {0, 120, 800, 500000, U64_MAX - 5}

\* Task A in the local queue of a CPU, about to run: dispatched from a queue
\* (its storage holds the enqueue time stamp) or inserted by select_cpu after
\* an earlier run (no stamp).
InitRun ==
    /\ cpu_capacity \in CapTables
    /\ \E v \in RunVtimes, sum \in {1, 5} :
           G = [vtime_now |-> v, total_weight |-> sum,
                max_capacity |-> MaxOfTable(cpu_capacity)]
    /\ \E w \in {1, 3}, ve \in RunVes, c \in CPUs, ns \in {0, 1} :
           /\ tctx = [t \in Tasks |->
                        IF t = "A" THEN [CachedTctx(w) EXCEPT !.enq_ns = ns]
                        ELSE NoTctx]
           /\ task = [t \in Tasks |->
                        IF t = "A"
                        THEN [st |-> "local", weight |-> w, dsq_vtime |-> ve, cpu |-> c]
                        ELSE [st |-> "off", weight |-> 0, dsq_vtime |-> 0, cpu |-> 0]]
           /\ local = [k \in CPUs |-> IF k = c THEN <<"A">> ELSE <<>>]
    /\ dsq = [d \in DsqIds |-> <<>>]
    /\ last = NoEvent
    /\ agent = AgentIdle
    /\ sysfs = [cap |-> cpu_capacity, changes |-> 0, age |-> 0]
    /\ calc = NoCalc
    /\ used = MaxEvents - ScenEvents
    /\ base = NoBaseline
    /\ kern = KernAttached
    /\ inflight = NoInflight

SpecRun == InitRun /\ [][\E c \in CPUs : Running(c)]_vars

(* --------------------------- class scenarios -------------------------- *)

\* Capacity tables with an unknown (0) entry beside the usual one.
ClassTables ==
    CapTables \cup {[c \in CPUs |-> IF c = 0 THEN 0 ELSE 512],
                    [c \in CPUs |-> IF c = 0 THEN 1024 ELSE 0]}

\* max_capacity as found in global_data[0]: unset, or a maximum the agent wrote.
ClassMaxCaps == {0, 512, 1024}

\* Eligible times with lag 10, 3, 2, 0, -2, -3, -10 against vtime_now = 100.
ClassVes == {90, 97, 98, 100, 102, 103, 110}

\* Task A wakes up on a CPU in the middle of a run.
InitClass ==
    /\ cpu_capacity \in ClassTables
    /\ \E mc \in ClassMaxCaps :
           G = [vtime_now |-> 100, total_weight |-> 1, max_capacity |-> mc]
    /\ \E ve \in ClassVes, c \in CPUs :
           task = [t \in Tasks |->
                     IF t = "A"
                     THEN [st |-> "ready", weight |-> 1, dsq_vtime |-> ve, cpu |-> c]
                     ELSE [st |-> "off", weight |-> 0, dsq_vtime |-> 0, cpu |-> 0]]
    /\ tctx = [t \in Tasks |-> NoTctx]
    /\ dsq = [d \in DsqIds |-> <<>>]
    /\ local = [c \in CPUs |-> <<>>]
    /\ last = NoEvent
    /\ agent = AgentIdle
    /\ sysfs = [cap |-> cpu_capacity, changes |-> 0, age |-> 0]
    /\ calc = NoCalc
    /\ used = MaxEvents - ScenEvents
    /\ base = NoBaseline
    /\ kern = KernAttached
    /\ inflight = NoInflight

ClassNext ==
    \/ \E c \in PickedCpus, idle \in BOOLEAN, ic \in PickedCpus :
           SelectCpu("A", c, idle, ic)
    \/ Enqueue("A")

SpecClass == InitClass /\ [][ClassNext]_vars

(* ------------------------- the agent's lifetime ---------------------- *)

\* Values scx_bpf_create_dsq returns: 0, or a negative errno.
DsqRets == {0, -12, -17, -22}

eevdf_init_little_only(g, big_ret, little_ret) ==
    [g       |-> IF g.max_capacity = 0
                 THEN [g EXCEPT !.max_capacity = CAPACITY_SCALE] ELSE g,
     ret     |-> little_ret,
     created |-> (IF big_ret = 0 THEN {EEVDF_DSQ_BIG} ELSE {})
                     \cup (IF little_ret = 0 THEN {EEVDF_DSQ_LITTLE} ELSE {})]

\* eevdf_init: the new global state, the value returned and the queues
\* created; big_ret and little_ret are the results of scx_bpf_create_dsq.
eevdf_init(g, big_ret, little_ret) ==
    [g       |-> IF g.max_capacity = 0
                 THEN [g EXCEPT !.max_capacity = CAPACITY_SCALE] ELSE g,
     ret     |-> IF big_ret # 0 THEN big_ret ELSE little_ret,
     created |-> IF big_ret # 0 THEN {}
                 ELSE IF little_ret # 0 THEN {EEVDF_DSQ_BIG}
                 ELSE {EEVDF_DSQ_BIG, EEVDF_DSQ_LITTLE}]

\* The steps of main outside the refresh passes leave the tasks, the capacity
\* source and the capacity table alone.
MainFrame ==
    UNCHANGED <<cpu_capacity, task, tctx, dsq, local, sysfs, calc, used, base, inflight>>

\* sigint_handler, installed for INT and TERM at the start of main.
Signal ==
    /\ agent.status = -1
    /\ ~agent.exit_req
    /\ agent' = [agent EXCEPT !.exit_req = TRUE]
    /\ UNCHANGED <<G, last, kern>>
    /\ MainFrame

\* What getopt(argc, argv, "h") finds on the command line: no option, -h, or
\* an option it does not know (it returns '?').
MainOpts == {"none", "h", "?"}

\* while ((opt = getopt(...)) != -1) { default: usage; return opt != 'h'; }
MainGetopt(opt) ==
    /\ agent.pc = "getopt"
    /\ agent' = IF opt = "none" THEN [agent EXCEPT !.pc = "open"]
                ELSE [agent EXCEPT !.status = IF opt # "h" THEN 1 ELSE 0,
                                   !.pc = "exited"]
    /\ last' = [Event("getopt", "-", 0, 0, 0)
                  EXCEPT !.ret = IF opt = "none" THEN -1
                                 ELSE IF opt # "h" THEN 1 ELSE 0]
    /\ UNCHANGED <<G, kern>>
    /\ MainFrame

\* skel = scx_eevdf__open(); if (!skel) return 1;
MainOpen(ok) ==
    /\ agent.pc = "open"
    /\ agent' = IF ok THEN [agent EXCEPT !.skel = "open", !.pc = "load"]
                ELSE [agent EXCEPT !.status = 1, !.pc = "exited"]
    /\ last' = [Event("open", "-", 0, 0, 0) EXCEPT !.ret = IF ok THEN 0 ELSE 1]
    /\ UNCHANGED <<G, kern>>
    /\ MainFrame

MainLoad_leak(ok) ==
    /\ agent.pc = "load"
    /\ agent' = IF ok
                THEN [agent EXCEPT !.skel = "loaded", !.pc = "scan", !.cpu = 0,
                                   !.max_cap = 0, !.changed = FALSE]
                ELSE [agent EXCEPT !.status = 1, !.pc = "exited"]
    /\ last' = [Event("load", "-", 0, 0, 0) EXCEPT !.ret = IF ok THEN 0 ELSE 1]
    /\ UNCHANGED <<G, kern>>
    /\ MainFrame

\* if (scx_eevdf__load(skel)) { scx_eevdf__destroy(skel); return 1; }
\* refresh_cpu_capacities(skel, true);
MainLoad(ok) ==
    /\ agent.pc = "load"
    /\ agent' = IF ok
                THEN [agent EXCEPT !.skel = "loaded", !.pc = "scan", !.cpu = 0,
                                   !.max_cap = 0, !.changed = FALSE]
                ELSE [agent EXCEPT !.skel = "destroyed", !.status = 1,
                                   !.pc = "exited"]
    /\ last' = [Event("load", "-", 0, 0, 0) EXCEPT !.ret = IF ok THEN 0 ELSE 1]
    /\ UNCHANGED <<G, kern>>
    /\ MainFrame

\* The queue ids of a set, in increasing order.
CreatedSeq(S) ==
    (IF EEVDF_DSQ_BIG \in S THEN <<EEVDF_DSQ_BIG>> ELSE <<>>)
        \o (IF EEVDF_DSQ_LITTLE \in S THEN <<EEVDF_DSQ_LITTLE>> ELSE <<>>)

\* link = bpf_map__attach_struct_ops(...); if (!link) { destroy; return 1; }
\* The attach fails at once when the runtime is busy (another scheduler is
\* enabled); otherwise the runtime calls ops.init and enables the scheduler
\* only if init returned 0, destroying the queues init created otherwise.
MainAttach(busy, big_ret, little_ret) ==
    /\ agent.pc = "attach"
    /\ LET r  == eevdf_init(G, big_ret, little_ret)
           ok == ~busy /\ r.ret = 0
       IN  /\ G' = IF busy THEN G ELSE r.g
           /\ kern' = IF ok THEN [ops |-> "eevdf", dsqs |-> r.created] ELSE KernNone
           /\ agent' = IF ok THEN [agent EXCEPT !.link = "attached", !.pc = "loop"]
                       ELSE [agent EXCEPT !.skel = "destroyed", !.status = 1,
                                          !.pc = "exited"]
           /\ last' = IF busy
                      THEN [Event("attach_busy", "-", 0, 0, 0) EXCEPT !.ret = 1]
                      ELSE [Event("init", "-", 0, 0, G.max_capacity)
                              EXCEPT !.ret = r.ret, !.moved = CreatedSeq(r.created)]
    /\ MainFrame

\* while (!exit_req): the test at the head of the loop finds the flag set and
\* the loop ends.
MainLeave ==
    /\ agent.pc = "loop"
    /\ agent.exit_req
    /\ agent' = [agent EXCEPT !.pc = "unlink"]
    /\ UNCHANGED <<G, last, kern>>
    /\ MainFrame

MainUnlink_keep ==
    /\ agent.pc = "unlink"
    /\ agent' = [agent EXCEPT !.pc = "destroy"]
    /\ UNCHANGED <<G, last, kern>>
    /\ MainFrame

\* bpf_link__destroy(link): the runtime disables the scheduler.
MainUnlink ==
    /\ agent.pc = "unlink"
    /\ agent' = [agent EXCEPT !.link = "destroyed", !.pc = "destroy"]
    /\ kern' = KernNone
    /\ UNCHANGED <<G, last>>
    /\ MainFrame

\* scx_eevdf__destroy(skel); return 0;
MainDestroy ==
    /\ agent.pc = "destroy"
    /\ agent' = [agent EXCEPT !.skel = "destroyed", !.status = 0, !.pc = "exited"]
    /\ UNCHANGED <<G, last, kern>>
    /\ MainFrame

\* The steps of the agent's own program.
MainProgram ==
    \/ \E opt \in MainOpts : MainGetopt(opt)
    \/ \E ok \in BOOLEAN : MainOpen(ok)
    \/ \E ok \in BOOLEAN : MainLoad(ok)
    \/ \E busy \in BOOLEAN, b \in DsqRets, l \in DsqRets : MainAttach(busy, b, l)
    \/ AgentSleep
    \/ AgentTick
    \/ AgentScanCpu
    \/ AgentLookup
    \/ AgentUpdate
    \/ MainLeave
    \/ MainUnlink
    \/ MainDestroy

MainNext ==
    \/ MainProgram
    \/ Signal
    \/ \E c \in CPUs, v \in CapValues : SysfsChange(c, v)

\* The agent has been started and has installed its signal handlers: fresh
\* maps, nothing attached, the command line not yet read.
InitMain ==
    /\ cpu_capacity = [c \in CPUs |-> 0]
    /\ G = [vtime_now |-> 0, total_weight |-> 0, max_capacity |-> 0]
    /\ task = [t \in Tasks |-> [st |-> "off", weight |-> 0, dsq_vtime |-> 0, cpu |-> 0]]
    /\ tctx = [t \in Tasks |-> NoTctx]
    /\ dsq = [d \in DsqIds |-> <<>>]
    /\ local = [c \in CPUs |-> <<>>]
    /\ last = NoEvent
    /\ agent = [AgentIdle EXCEPT !.pc = "getopt", !.skel = "none", !.link = "none",
                                 !.looped = FALSE]
    /\ sysfs \in [cap : [CPUs -> CapValues], changes : {0}, age : {0}]
    /\ calc = NoCalc
    /\ used = MaxEvents - MainEvents
    /\ base = NoBaseline
    /\ kern = KernNone
    /\ inflight = NoInflight

\* The agent's program keeps running: no step of it blocks for ever.
SpecMain == InitMain /\ [][MainNext]_vars /\ WF_vars(MainProgram)

\* max_capacity values ops.init can find: 0 when the agent's write failed.
InitMaxCaps == {0, 1, 256, 512, 1024}

\* The skeleton is loaded, the first refresh pass is over, main attaches.
InitAttach ==
    /\ cpu_capacity \in ClassTables
    /\ \E mc \in InitMaxCaps :
           G = [vtime_now |-> 0, total_weight |-> 0, max_capacity |-> mc]
    /\ task = [t \in Tasks |-> [st |-> "off", weight |-> 0, dsq_vtime |-> 0, cpu |-> 0]]
    /\ tctx = [t \in Tasks |-> NoTctx]
    /\ dsq = [d \in DsqIds |-> <<>>]
    /\ local = [c \in CPUs |-> <<>>]
    /\ last = NoEvent
    /\ agent = [AgentIdle EXCEPT !.pc = "attach", !.link = "none", !.looped = FALSE]
    /\ sysfs = [cap |-> cpu_capacity, changes |-> 0, age |-> 0]
    /\ calc = NoCalc
    /\ used = MaxEvents - ScenEvents
    /\ base = NoBaseline
    /\ kern = KernNone
    /\ inflight = NoInflight

SpecInit ==
    InitAttach
        /\ [][\E busy \in BOOLEAN, b \in DsqRets, l \in DsqRets :
                  MainAttach(busy, b, l)]_vars

(* --------------------------- frame scenarios -------------------------- *)

\* The handler calls a scenario of this section makes.
FrameEvents == 3

FrameVes == {90, 120}

\* Task A is awake with v_e behind or ahead of V while task B waits in BIG,
\* where eevdf_enqueue put it (weight 1, v_e = V = 100, on the big CPU).
InitFrame ==
    /\ cpu_capacity \in CapTables
    /\ G = [vtime_now |-> 100, total_weight |-> 2,
            max_capacity |-> MaxOfTable(cpu_capacity)]
    /\ \E ve \in FrameVes, c \in CPUs :
           task = [t \in Tasks |->
                     IF t = "A"
                     THEN [st |-> "ready", weight |-> 1, dsq_vtime |-> ve, cpu |-> c]
                     ELSE [st |-> "queued", weight |-> 1, dsq_vtime |-> 100, cpu |-> 0]]
    /\ tctx = [t \in Tasks |-> IF t = "B" THEN EnqueuedTctx(1) ELSE NoTctx]
    /\ dsq = [d \in DsqIds |->
                IF d = EEVDF_DSQ_BIG
                THEN <<[t |-> "B", vd |-> 100 + QMax(CAPACITY_SCALE) * SCALE]>>
                ELSE <<>>]
    /\ local = [c \in CPUs |-> <<>>]
    /\ last = NoEvent
    /\ agent = AgentIdle
    /\ sysfs = [cap |-> cpu_capacity, changes |-> 0, age |-> 0]
    /\ calc = NoCalc
    /\ used = MaxEvents - FrameEvents
    /\ base = NoBaseline
    /\ kern = KernAttached
    /\ inflight = NoInflight

FrameNext == CoreNext

SpecFrame == InitFrame /\ [][FrameNext]_vars

(* ------------------------ reciprocal division ------------------------- *)

DivWeights == {1, 2, 3, 5, 7, 10, 100, 1000, 3000, 65536, 1048576}

DivVals ==
    {0, 1, 2, 3, 7, 100, 1000, 2047, 6000, 65535, 100000, 1000000, 6000000,
     100000000, 2000000000}

\* div_by_weight_cached(val, w, tctx) on a task context, for operands whose
\* product val * w_inv the model checker's integers can hold.
Divide(w, val) ==
    /\ val <= FAST_DIV_LIMIT \div InvWeight(w)
    /\ calc' = [w |-> w, val |-> val,
                q |-> div_by_weight_cached(val, w,
                        [NoTctx EXCEPT !.present = TRUE])]
    /\ UNCHANGED <<G, cpu_capacity, task, tctx, dsq, local, last, agent, sysfs, used,
                   base, kern, inflight>>

SpecDiv == Init /\ [][\E w \in DivWeights, val \in DivVals : Divide(w, val)]_vars

(* ------------------------------- claims ------------------------------- *)

Enabled == {t \in Tasks : task[t].st # "off"}

RECURSIVE SumWeights(_)
SumWeights(S) ==
    IF S = {} THEN 0
    ELSE LET t == CHOOSE x \in S : TRUE
         IN  EffWeight(task[t].weight) + SumWeights(S \ {t})

\* C1: after any sequence of enable, disable and set_weight events (handlers
\* one at a time, each task following its lifecycle, weight 0 counted as 1),
\* total_weight is the sum of the current weights of the enabled tasks.
C1_WeightSum == G.total_weight = SumWeights(Enabled)

\* A set_weight that changed the weight of one of two enabled tasks has run.
C1_Witness ==
    /\ last.op = "set_weight"
    /\ EffWeight(last.wnew) # EffWeight(last.w)
    /\ Enabled = Tasks
    /\ G.total_weight = SumWeights(Enabled)

\* The task the last handler was called for, as that handler left it.
LastVe == task[last.t].dsq_vtime

\* The lag V - v_e(p) the last handler found when it started.
LastLag == LagOf(last.V0, last.ve0)

QMaxNow == QMax(MaxCapOf(G))

\* C3: no enqueue, running, stopping or dispatch event decreases vtime_now.
C3_NoRegress ==
    last.op \in {"enqueue", "running", "stopping", "dispatch"}
        => G.vtime_now >= last.V0

\* C4 as stated: no disable event decreases vtime_now.
C4_DisableNoRegress == last.op = "disable" => G.vtime_now >= last.V0

\* C4 amended: disable(p) decreases vtime_now only when the lag l = V - v_e(p)
\* is negative and weight remains (W_new > 0), and then by |l| / W_new
\* (saturating at 0); in every other case vtime_now does not decrease.
C4_DisableAmended ==
    last.op = "disable" =>
        IF LastLag < 0 /\ G.total_weight > 0
        THEN G.vtime_now = Max(0, last.V0 - (Abs(LastLag) \div G.total_weight))
        ELSE G.vtime_now >= last.V0

\* A disable with positive lag has raised vtime_now.
C4_Witness ==
    /\ last.op = "disable"
    /\ LastLag > 0
    /\ G.total_weight > 0
    /\ G.vtime_now > last.V0

\* C5 as stated: when enable, disable or set_weight decreases vtime_now, the
\* decrease is at most |l| / W_new.
C5_DecreaseBound ==
    (last.op \in {"enable", "disable", "set_weight"} /\ G.vtime_now < last.V0)
        => /\ G.total_weight > 0
           /\ last.V0 - G.vtime_now <= Abs(LastLag) \div G.total_weight

\* C5 amended: a decrease of vtime_now by enable or disable is at most
\* |l| / W_new; a decrease by set_weight is at most |l| / min(W_old, W_new).
C5_DecreaseAmended ==
    (last.op \in {"enable", "disable", "set_weight"} /\ G.vtime_now < last.V0)
        => /\ G.total_weight > 0
           /\ last.V0 - G.vtime_now <=
                  Abs(LastLag) \div (IF last.op = "set_weight"
                                     THEN Min(last.W0, G.total_weight)
                                     ELSE G.total_weight)

\* A set_weight has decreased vtime_now by more than |l| / W_new.
C5_Witness ==
    /\ last.op = "set_weight"
    /\ G.vtime_now < last.V0
    /\ last.V0 - G.vtime_now > Abs(LastLag) \div G.total_weight

\* C6: immediately after enqueue(p) the lag V - v_e(p) is at most Q_max.
C6_LagBounded ==
    last.op = "enqueue" => LagOf(G.vtime_now, LastVe) <= QMaxNow

\* An enqueue has found a lag above Q_max and clamped it.
C6_Witness ==
    /\ last.op = "enqueue"
    /\ LastLag > QMaxNow
    /\ LagOf(G.vtime_now, LastVe) = QMaxNow

\* C7 as stated: immediately after enqueue(p), v_e(p) lies in [V - Q_max, V].
C7_VeInWindow ==
    last.op = "enqueue" =>
        /\ LastVe <= G.vtime_now
        /\ LastVe >= Max(0, G.vtime_now - QMaxNow)

\* C7 amended: immediately after enqueue(p), v_e(p) is its old value unless
\* that is before the floor max(0, V - Q_max) in the order of time_before (the
\* sign of the difference taken as a signed word), and then it is the floor.
\* For an old value and a floor less than half the word apart this is the
\* larger of the two; there is no upper clamp, so a task whose v_e is ahead of
\* V keeps it.
C7_VeFloorOnly ==
    last.op = "enqueue" =>
        LET floor == IF G.vtime_now > QMaxNow THEN G.vtime_now - QMaxNow ELSE 0
        IN  /\ LastVe = IF time_before(last.ve0, floor) THEN floor ELSE last.ve0
            /\ Abs(last.ve0 - floor) <= S64_MAX => LastVe = Max(last.ve0, floor)

\* A task that ran and stopped is enqueued with v_e ahead of V, and keeps it.
C7_Witness ==
    /\ last.op = "enqueue"
    /\ last.ve0 > G.vtime_now
    /\ LastVe = last.ve0

\* C8: of two tasks in the same named queue, dispatch moves the one inserted
\* with the smaller v_d to a local queue first: every task a dispatch moves
\* had a key no larger than the keys left in its queue and than the keys of
\* the tasks the same dispatch moved after it from that queue.
C8_DeadlineOrder ==
    last.op = "dispatch" =>
        \A i \in 1..Len(last.moved) :
            /\ \A k \in 1..Len(dsq[last.moved[i].src]) :
                   last.moved[i].vd <= dsq[last.moved[i].src][k].vd
            /\ \A j \in (i + 1)..Len(last.moved) :
                   last.moved[j].src = last.moved[i].src
                       => last.moved[i].vd <= last.moved[j].vd

\* Two tasks were in one queue and a dispatch took the one with the smaller
\* key (B, the heavier task) and left the other in the queue.
C8_Witness ==
    /\ last.op = "dispatch"
    /\ Len(last.moved) = 1
    /\ Len(dsq[last.moved[1].src]) = 1
    /\ last.moved[1].vd < dsq[last.moved[1].src][1].vd
    /\ last.moved[1].t = "B"
    /\ used = 5
    /\ \A t \in Tasks : task[t].dsq_vtime = 0

C2_AgentKeepsVW ==
    last.op = "agent_update" =>
        /\ G.vtime_now = last.V0
        /\ G.total_weight = last.W0

\* C10: for w in [1, 2^20] and val in [0, 2^32 - 1], (val * w_inv) >> 20
\* differs from floor(val / w) by at most 1.
C10_ReciprocalError == Abs(calc.q - (calc.val \div calc.w)) <= 1

\* C11: with every CPU capacity equal to CAPACITY_SCALE, and the two
\* schedulers driven by the same events, every dispatch promotes first the
\* task the single-queue scheduler promotes.
C11_SameOrder ==
    (base.loaded /\ last.op = "dispatch" /\ last.moved # <<>> /\ base.promoted # <<>>)
        => last.moved[1].t = base.promoted[1]

\* A dispatch took B from BIG while A, routed to LITTLE for its negative lag,
\* held the smaller v_d; the single-queue scheduler promoted A.
C11_Witness ==
    /\ base.loaded
    /\ last.op = "dispatch"
    /\ Len(last.moved) = 1
    /\ base.promoted # <<>>
    /\ last.moved[1].t # base.promoted[1]
    /\ last.moved[1].src = EEVDF_DSQ_BIG
    /\ dsq[EEVDF_DSQ_LITTLE] # <<>>
    /\ dsq[EEVDF_DSQ_LITTLE][1].vd < last.moved[1].vd
    /\ \A t \in Tasks : task[t].weight # 0

\* A value cut to the range of the word: 0 below it, the maximum above it.
SatU64(x) == IF x < 0 THEN 0 ELSE IF x > U64_MAX THEN U64_MAX ELSE x

\* C12: set_weight(p, w_new) with W_old > 0 and W_new > 0 changes vtime_now by
\* exactly D = sign(l) * (|l| / W_old) - sign(l) * (|l| / W_new), saturating at 0
\* and at the maximum, where l = V - v_e(p); with W_old or W_new 0 it leaves
\* vtime_now alone.  From W = 10, V = 1000000, v_e = 500000, w_old = 2,
\* w_new = 8 the result is V = 1018750, W = 16.
C12_SetWeightDelta ==
    last.op = "set_weight" =>
        LET l    == LastLag
            sgn  == IF l < 0 THEN -1 ELSE 1
            Wold == last.W0
            Wnew == G.total_weight
        IN  /\ IF Wold > 0 /\ Wnew > 0
               THEN G.vtime_now =
                        SatU64(last.V0 + (sgn * (Abs(l) \div Wold))
                                       - (sgn * (Abs(l) \div Wnew)))
               ELSE G.vtime_now = last.V0
            /\ (last.V0 = 1000000 /\ last.W0 = 10 /\ last.ve0 = 500000
                    /\ last.w = 2 /\ last.wnew = 8)
                   => (G.vtime_now = 1018750 /\ G.total_weight = 16)

\* The set_weight of scenario S3 has run.
C12_Witness ==
    /\ last.op = "set_weight"
    /\ last.V0 = 1000000 /\ last.W0 = 10 /\ last.ve0 = 500000
    /\ last.w = 2 /\ last.wnew = 8
    /\ G.vtime_now = 1018750
    /\ G.total_weight = 16

\* C13: set_weight leaves total_weight = max(0, W_old - w_old) + w_new; when
\* W_old < w_old the result is at most w_new, never W_old + w_new.
C13_SumSaturates ==
    last.op = "set_weight" =>
        /\ G.total_weight =
               Max(0, last.W0 - EffWeight(last.w)) + EffWeight(last.wnew)
        /\ last.W0 < EffWeight(last.w) => G.total_weight <= EffWeight(last.wnew)

\* The disable of scenario S4: W = 5, V = 100, v_e(p) = 120, w(p) = 2.
S4_Disable ==
    /\ last.op = "disable"
    /\ last.W0 = 5 /\ last.V0 = 100 /\ last.ve0 = 120 /\ last.w = 2

\* C14 as stated: the disable of scenario S4 leaves W = 3 and V = 93.
C14_DisableS4 == S4_Disable => (G.total_weight = 3 /\ G.vtime_now = 93)

\* C14 amended: the disable of scenario S4 leaves W = 3 and V = 94: the
\* correction (-20) / 3 is truncated toward zero to -6.
C14_DisableS4Amended == S4_Disable => (G.total_weight = 3 /\ G.vtime_now = 94)

\* The disable of scenario S4 has run and lowered V by 6.
C14_Witness == S4_Disable /\ G.total_weight = 3 /\ last.V0 - G.vtime_now = 6

\* The end of scenario S1: A and B, both of weight 1, were enabled and
\* enqueued at V = 0; A ran a full slice on a CPU of capacity CAPACITY_SCALE
\* and has stopped, B still waits in its queue.
S1_Stopped ==
    /\ last.op = "stopping" /\ last.t = "A" /\ last.slice = 0
    /\ get_cpu_cap(cpu_capacity, last.cpu) = CAPACITY_SCALE
    /\ last.V0 = 0 /\ last.ve0 = 0 /\ last.W0 = 2 /\ last.w = 1
    /\ task["B"].st = "queued" /\ task["B"].weight = 1 /\ task["B"].dsq_vtime = 0

\* C15 as stated: at the end of scenario S1, v_e(A) = SLICE * 100 and V is
\* SLICE / 2, up to integer rounding.
C15_S1HalfSlice ==
    S1_Stopped =>
        /\ task["A"].dsq_vtime = SCX_SLICE_DFL * SCALE
        /\ Abs((2 * G.vtime_now) - SCX_SLICE_DFL) <= 2

\* C15 amended: at the end of scenario S1, v_e(A) = SLICE * 100 and
\* V = SLICE * 100 / 2: V advances by the service in virtual units over W.
C15_S1Amended ==
    S1_Stopped =>
        /\ task["A"].dsq_vtime = SCX_SLICE_DFL * SCALE
        /\ G.vtime_now = (SCX_SLICE_DFL * SCALE) \div 2

\* Scenario S1 has run to its end, with V at half of v_e(A).
C15_Witness ==
    /\ S1_Stopped
    /\ task["A"].dsq_vtime = SCX_SLICE_DFL * SCALE
    /\ 2 * G.vtime_now = task["A"].dsq_vtime

\* divide_by_weight(val, w) for val <= 2^32 - 1: (val * w_inv) >> 20 with
\* w_inv = floor((2^20 + w/2) / w), at least 1.
DivideByWeight(val, w) ==
    (val * Max(1, (1048576 + (w \div 2)) \div w)) \div 1048576

\* The service s = consumed * cap * 100 / 1024 of the last stopping event.
LastService ==
    ((SCX_SLICE_DFL - last.slice) * get_cpu_cap(cpu_capacity, last.cpu) * 100)
        \div 1024

C17_S6Deadline ==
    (last.op = "enqueue" /\ last.V0 = 10 * QMaxNow /\ last.ve0 = 0 /\ last.w >= 1)
        => /\ LastVe = 9 * QMaxNow
           /\ last.vd = (9 * QMaxNow) + ((QMaxNow * 100) \div last.w)

\* The class of the CPU the last dispatch ran on, and the other class.
LastLocalDsq == class_dsq_id(get_cpu_cap(cpu_capacity, last.cpu), MaxCapOf(G))

LastOtherDsq == IF LastLocalDsq = EEVDF_DSQ_BIG THEN EEVDF_DSQ_LITTLE ELSE EEVDF_DSQ_BIG

\* C18: scenario S5: a dispatch on a BIG-class CPU that finds BIG empty and
\* LITTLE non-empty moves the minimum-v_d task of LITTLE to that CPU's local
\* queue, and does not increment the idle-hit counter stats[0].
C18_DispatchSpill ==
    (/\ last.op = "dispatch"
     /\ LastLocalDsq = EEVDF_DSQ_BIG
     /\ last.q0[EEVDF_DSQ_BIG] = <<>>
     /\ last.q0[EEVDF_DSQ_LITTLE] # <<>>)
        => /\ last.moved # <<>>
           /\ last.moved[1].src = EEVDF_DSQ_LITTLE
           /\ \E k \in 1..Len(last.q0[EEVDF_DSQ_LITTLE]) :
                  /\ last.q0[EEVDF_DSQ_LITTLE][k].t = last.moved[1].t
                  /\ last.q0[EEVDF_DSQ_LITTLE][k].vd = last.moved[1].vd
           /\ \A k \in 1..Len(last.q0[EEVDF_DSQ_LITTLE]) :
                  last.moved[1].vd <= last.q0[EEVDF_DSQ_LITTLE][k].vd
           /\ \E k \in 1..Len(local[last.cpu]) : local[last.cpu][k] = last.moved[1].t
           /\ \A k \in 1..Len(last.stat_inc) : last.stat_inc[k] # 0

\* A one-slot dispatch on the BIG CPU found BIG empty and three tasks in
\* LITTLE, and moved the first of them.
C18_Witness ==
    /\ last.op = "dispatch"
    /\ LastLocalDsq = EEVDF_DSQ_BIG
    /\ last.q0[EEVDF_DSQ_BIG] = <<>>
    /\ Len(last.q0[EEVDF_DSQ_LITTLE]) = 3
    /\ last.slots = 1
    /\ local[last.cpu] = <<last.q0[EEVDF_DSQ_LITTLE][1].t>>
    /\ Len(dsq[EEVDF_DSQ_LITTLE]) = 2

\* How many of the first i moves of the last dispatch came from queue d.
MovedFrom(d, i) == Cardinality({j \in 1..i : last.moved[j].src = d})

\* C19: one dispatch(cpu) moves at most min(max(slots, 1), 8) tasks; it takes
\* from the other class's queue only when the queue of class_of(cpu) is empty;
\* and it stops before that limit only when both queues are empty.
C19_DispatchBatch ==
    last.op = "dispatch" =>
        LET lim == Min(Max(last.slots, 1), 8)
            n   == Len(last.moved)
        IN  /\ n <= lim
            /\ \A i \in 1..n :
                   last.moved[i].src = LastOtherDsq
                       => MovedFrom(LastLocalDsq, i - 1) = Len(last.q0[LastLocalDsq])
            /\ n < lim => \A d \in DsqIds : dsq[d] = <<>>
            /\ n = Min(lim, Len(last.q0[LastLocalDsq]) + Len(last.q0[LastOtherDsq]))

\* A dispatch with more than 8 slots found 9 tasks in its class's queue and
\* 3 in the other, moved 8 and left the rest.
C19_Witness ==
    /\ last.op = "dispatch"
    /\ last.slots > DISPATCH_BATCH_MAX
    /\ Len(last.q0[LastLocalDsq]) = DISPATCH_BATCH_MAX + 1
    /\ Len(last.q0[LastOtherDsq]) = 3
    /\ Len(last.moved) = DISPATCH_BATCH_MAX
    /\ Len(dsq[LastLocalDsq]) = 1
    /\ Len(dsq[LastOtherDsq]) = 3

\* C20: after running(p), vtime_now = max(V_before, v_e(p)), hence
\* vtime_now >= v_e(p); total_weight and v_e(p) are unchanged.
C20_RunningMax ==
    last.op = "running" =>
        /\ G.vtime_now = Max(last.V0, last.ve0)
        /\ G.vtime_now >= LastVe
        /\ G.total_weight = last.W0
        /\ LastVe = last.ve0

\* The quotient l / W of a signed lag, truncated toward zero.
TruncDiv(l, W) == IF l < 0 THEN -((-l) \div W) ELSE l \div W

\* C21: enable(p) sets v_e(p) to V when it is 0; then, with l = V - v_e(p) and
\* W_new = W + w, it lowers vtime_now by l / W_new (truncating, saturating) and
\* sets total_weight to W_new.  Enabling a task with v_e = 0 leaves vtime_now
\* unchanged and gives the task lag 0.
C21_EnableDelta ==
    last.op = "enable" =>
        LET ve   == IF last.ve0 = 0 THEN last.V0 ELSE last.ve0
            l    == LagOf(last.V0, ve)
            Wnew == last.W0 + EffWeight(last.w)
        IN  /\ LastVe = ve
            /\ G.total_weight = Wnew
            /\ G.vtime_now = SatU64(last.V0 - TruncDiv(l, Wnew))
            /\ last.ve0 = 0 => (G.vtime_now = last.V0 /\ LagOf(G.vtime_now, LastVe) = 0)

\* A task with service history and positive lag has been enabled, and
\* vtime_now went down by l / W_new = 999880 / 12.
C21_Witness ==
    /\ last.op = "enable"
    /\ last.V0 = 1000000 /\ last.ve0 = 120 /\ last.W0 = 10 /\ last.w = 2
    /\ G.total_weight = 12
    /\ G.vtime_now = 1000000 - 83323

\* C22: disable(p) sets total_weight to W_new = max(0, W - w) and, with
\* l = V - v_e(p) taken before the update, adds l / W_new (truncating toward
\* zero, saturating) to vtime_now when W_new > 0; with W_new = 0 vtime_now is
\* unchanged.
C22_DisableDelta ==
    last.op = "disable" =>
        LET Wnew == Max(0, last.W0 - EffWeight(last.w))
        IN  /\ G.total_weight = Wnew
            /\ G.vtime_now = IF Wnew > 0
                             THEN SatU64(last.V0 + TruncDiv(LastLag, Wnew))
                             ELSE last.V0

\* A task with positive lag has been disabled and vtime_now went up by
\* l / W_new = 500000 / 6.
C22_Witness ==
    /\ last.op = "disable"
    /\ last.V0 = 1000000 /\ last.ve0 = 500000 /\ last.W0 = 10 /\ last.w = 4
    /\ G.total_weight = 6
    /\ G.vtime_now = 1000000 + 83333

\* The class of the CPU the last handler was called for or returned.
LastCpuClass == class_dsq_id(get_cpu_cap(cpu_capacity, last.cpu), MaxCapOf(G))

\* C23: select_cpu inserts the task into the local queue of the chosen CPU,
\* and counts an idle hit, exactly when the chosen CPU was found idle and its
\* class is desired_class(p); otherwise select_cpu inserts nothing.
C23_FastPath ==
    last.op = "select_cpu" =>
        LET fast == last.idle /\ last.cpu >= 0 /\ LastCpuClass = last.dsq
        IN  /\ fast <=> (task[last.t].st = "local"
                            /\ local[last.cpu] = <<last.t>>)
            /\ fast <=> (last.stat_inc = <<0>>)
            /\ ~fast => (task[last.t].st = "ready"
                            /\ \A c \in CPUs : local[c] = <<>>)
            /\ \A d \in DsqIds : dsq[d] = <<>>

\* A waking task with lag 10, beyond the boost threshold, has been inserted
\* into the local queue of the idle BIG CPU 0.
C23_Witness ==
    /\ last.op = "select_cpu"
    /\ last.ve0 = 90 /\ last.dsq = EEVDF_DSQ_BIG
    /\ cpu_capacity = [c \in CPUs |-> IF c = 0 THEN 1024 ELSE 512]
    /\ G.max_capacity = 1024
    /\ last.cpu = 0 /\ last.idle
    /\ local[0] = <<"A">>
    /\ task["A"].st = "local" /\ task["A"].cpu = 0

\* rho_c as the claims define it: a missing or zero entry is CAPACITY_SCALE.
RhoOf(cpu) ==
    IF cpu \in DOMAIN cpu_capacity /\ cpu_capacity[cpu] > 0
    THEN cpu_capacity[cpu] ELSE CAPACITY_SCALE

\* class_of(cpu): BIG iff 100 * rho_c >= 90 * rho_max.
ClassOf(cpu) ==
    IF 100 * RhoOf(cpu) >= 90 * MaxCapOf(G) THEN EEVDF_DSQ_BIG ELSE EEVDF_DSQ_LITTLE

\* C30: an enqueue that finds |V - v_e(p)| <= Q_max/4 + 1 inserts the task into
\* the queue of class_of(current CPU of p).
C30_NeutralRouting ==
    (last.op = "enqueue" /\ Abs(LastLag) <= (QMaxNow \div 4) + 1) =>
        /\ last.dsq = ClassOf(last.cpu)
        /\ \E i \in DOMAIN dsq[ClassOf(last.cpu)] : dsq[ClassOf(last.cpu)][i].t = last.t
        /\ \A d \in DsqIds \ {ClassOf(last.cpu)} : dsq[d] = <<>>

\* A task with lag 2 whose CPU has an unknown (0) capacity entry has been
\* inserted into BIG.
C30_Witness ==
    /\ last.op = "enqueue"
    /\ LastLag = 2
    /\ G.max_capacity = 1024
    /\ cpu_capacity[last.cpu] = 0
    /\ last.dsq = EEVDF_DSQ_BIG
    /\ dsq[EEVDF_DSQ_BIG] # <<>>

\* C25: no update of vtime_now or total_weight by enable, disable, set_weight,
\* running or stopping wraps around the word: a handler that adds leaves a
\* value at least as large (the maximum at most), one that subtracts a value
\* at most as large (0 at least).
C25_NoWrap ==
    /\ last.op = "stopping" =>
           G.vtime_now = IF last.W0 > 0
                         THEN SatU64(last.V0 + (LastService \div last.W0))
                         ELSE last.V0
    /\ last.op = "running" => G.vtime_now \in {last.V0, last.ve0}
    /\ last.op = "enable" =>
           /\ G.total_weight = SatU64(last.W0 + EffWeight(last.w))
           /\ LagOf(last.V0, LastVe) >= 0 => G.vtime_now <= last.V0
           /\ LagOf(last.V0, LastVe) <= 0 => G.vtime_now >= last.V0
    /\ last.op = "disable" =>
           /\ G.total_weight = SatU64(last.W0 - EffWeight(last.w))
           /\ LastLag >= 0 => G.vtime_now >= last.V0
           /\ LastLag <= 0 => G.vtime_now <= last.V0
    /\ last.op = "set_weight" =>
           /\ G.total_weight <= last.W0 + EffWeight(last.wnew)
           /\ G.total_weight >= EffWeight(last.wnew)
           /\ (LastLag >= 0) = (G.total_weight >= last.W0) => G.vtime_now >= last.V0
           /\ (LastLag <= 0) = (G.total_weight >= last.W0) => G.vtime_now <= last.V0

\* C26: a task weight of 0 is read as 1 by enqueue, stopping, enable, disable
\* and set_weight (old and new weight): enabling or disabling a weight-0 task
\* changes total_weight by exactly 1 (down to 0 at most), and the handlers
\* divide by 1.
C26_ZeroWeight ==
    /\ (last.op = "enable" /\ last.w = 0) => G.total_weight = last.W0 + 1
    /\ (last.op = "disable" /\ last.w = 0) => G.total_weight = Max(0, last.W0 - 1)
    /\ (last.op = "enqueue" /\ last.w = 0) =>
           /\ last.vd = ToU64(LastVe + (QMaxNow * 100))
           /\ tctx[last.t].present /\ tctx[last.t].weight_cached = 1
    /\ (last.op = "stopping" /\ last.w = 0) => LastVe = ToU64(last.ve0 + LastService)
    /\ (last.op = "set_weight" /\ last.w = 0) =>
           G.total_weight = Max(0, last.W0 - 1) + EffWeight(last.wnew)
    /\ (last.op = "set_weight" /\ last.wnew = 0) =>
           /\ G.total_weight >= 1
           /\ last.W0 >= EffWeight(last.w) => G.total_weight = last.W0 - EffWeight(last.w) + 1
           /\ tctx[last.t].present /\ tctx[last.t].weight_cached = 1

\* A task of weight 0 has been enabled and total_weight went from 3 to 4.
C26_Witness ==
    /\ last.op = "enable"
    /\ last.w = 0
    /\ last.W0 = 3
    /\ G.total_weight = 4

\* C24: init returns non-zero when the creation of the BIG or of the LITTLE
\* queue fails and 0 only when both were created; it sets max_capacity to
\* CAPACITY_SCALE only when it is 0 and leaves a non-zero max_capacity alone.
C24_InitResult ==
    last.op = "init" =>
        /\ (last.ret = 0) <=> (last.moved = <<EEVDF_DSQ_BIG, EEVDF_DSQ_LITTLE>>)
        /\ last.ret = 0 => kern = [ops |-> "eevdf",
                                   dsqs |-> {EEVDF_DSQ_BIG, EEVDF_DSQ_LITTLE}]
        /\ G.max_capacity = IF last.w = 0 THEN CAPACITY_SCALE ELSE last.w

\* init found the max_capacity 512 the agent had written, kept it and created
\* both queues.
C24_Witness ==
    /\ last.op = "init"
    /\ last.w = 512
    /\ last.ret = 0
    /\ G.max_capacity = 512
    /\ kern.dsqs = {EEVDF_DSQ_BIG, EEVDF_DSQ_LITTLE}

\* The largest capacity the handlers use for a CPU.
MaxRho == CHOOSE m \in {RhoOf(c) : c \in CPUs} : \A c \in CPUs : RhoOf(c) <= m

\* C27: after every completed refresh pass of the agent max_capacity is the
\* maximum over the CPUs of the capacity the handlers use for the CPU, and
\* max_capacity >= 1 whenever the scheduler is attached.
C27_RhoMax ==
    /\ agent.pc \in {"attach", "loop", "sleep", "unlink", "destroy"} =>
           G.max_capacity = MaxRho
    /\ kern.ops = "eevdf" => G.max_capacity >= 1

\* C28: when the open, the load or the attach fails the agent exits with a
\* non-zero status without having entered its main loop, no scheduler is
\* attached, and a skeleton that had been opened is destroyed.
C28_FailedStart ==
    /\ (last.op \in {"open", "load", "init", "attach_busy"} /\ last.ret # 0) =>
           (agent.pc = "exited" /\ agent.status = 1)
    /\ agent.status = 1 =>
           /\ ~agent.looped
           /\ agent.link = "none"
           /\ kern = KernNone
           /\ agent.skel = IF last.op \in {"getopt", "open"} THEN "none" ELSE "destroyed"
    /\ agent.status # -1 => agent.pc = "exited"

\* The attach failed because ops.init could not create the LITTLE queue: the
\* agent has exited with status 1 and the skeleton is destroyed.
C28_Witness ==
    /\ last.op = "init"
    /\ last.ret # 0
    /\ last.moved = <<EEVDF_DSQ_BIG>>
    /\ agent.pc = "exited"
    /\ agent.status = 1
    /\ agent.skel = "destroyed"
    /\ kern = KernNone

\* C29: once a signal has set the exit flag the agent begins no further
\* iteration of its main loop (it completes the one in progress, then the
\* test at the head of the loop ends the loop), destroys the link before the
\* skeleton, and terminates with status 0.
C29_CleanExit ==
    /\ [][(agent'.exit_req /\ agent'.pc = "sleep") => agent.pc = "sleep"]_vars
    /\ [][(agent.exit_req /\ agent.pc = "loop") =>
              (agent'.pc \in {"loop", "unlink"} /\ agent'.tick = agent.tick)]_vars
    /\ [](agent.skel = "destroyed" /\ agent.link # "none" => agent.link = "destroyed")
    /\ []((agent.status = 0 /\ agent.skel # "none") =>
              (agent.exit_req /\ agent.link = "destroyed"
                 /\ agent.skel = "destroyed" /\ kern = KernNone))
    /\ (agent.exit_req /\ agent.link = "attached")
           ~> (agent.pc = "exited" /\ agent.status = 0)

\* A signal arrived while the agent was in its main loop; the agent has left
\* the loop, destroyed link and skeleton and exited with status 0.
C29_Witness ==
    /\ agent.exit_req
    /\ agent.looped
    /\ agent.pc = "exited"
    /\ agent.status = 0
    /\ agent.link = "destroyed"
    /\ agent.skel = "destroyed"
    /\ kern = KernNone

\* C31: a task's v_e never decreases across a handler: stopping adds a
\* non-negative amount, enqueue only raises it to the floor max(0, V - Q_max),
\* enable only initialises it from 0 to V, and select_cpu, dispatch, running,
\* set_weight and disable leave every task's v_e as it was.
C31_VeMonotone ==
    [][LET op == last'.op
           t  == last'.t
           ve == task[t].dsq_vtime
       IN  /\ \A u \in Tasks : task'[u].dsq_vtime >= task[u].dsq_vtime
           /\ op = "stopping" =>
                  /\ task'[t].dsq_vtime >= ve
                  /\ \A u \in Tasks \ {t} : task'[u].dsq_vtime = task[u].dsq_vtime
           /\ op = "enqueue" =>
                  task'[t].dsq_vtime = Max(ve, Max(0, G.vtime_now - QMaxNow))
           /\ op = "enable" =>
                  task'[t].dsq_vtime = IF ve = 0 THEN G.vtime_now ELSE ve
           /\ op \in {"select_cpu", "dispatch", "running", "set_weight", "disable"} =>
                  \A u \in Tasks : task'[u].dsq_vtime = task[u].dsq_vtime]_vars

\* C36: set_weight(p, w_new) with w_new equal to the task's current weight
\* leaves the global state as it was: G.V and G.W are unchanged, also in
\* states where W is smaller than the task's weight.
C36_SameWeight ==
    (last.op = "set_weight" /\ last.wnew = last.w) =>
        /\ G.total_weight = last.W0
        /\ G.vtime_now = last.V0

\* C38: in the single-queue scheduler, enqueue's lag clamp uses the floor
\* max(0, V - SLICE): when V < SLICE the enqueued task keeps its v_e, and
\* after every enqueue v_e <= max(old v_e, V).
C38_BaselineFloor ==
    [][(base.loaded /\ last'.op = "enqueue") =>
           LET t == last'.t
           IN  /\ base'.ve[t] <= Max(base.ve[t], base.vtime_now)
               /\ base.vtime_now < SCX_SLICE_DFL => base'.ve[t] = base.ve[t]]_vars

\* C37: select_cpu and dispatch never modify G.V, G.W or any task's v_e;
\* enqueue never modifies G.V or G.W and writes only the enqueued task's v_e;
\* no handler for a task writes another task's v_e.
C37_Frame ==
    [][LET op == last'.op
           t  == last'.t
       IN  /\ op \in {"select_cpu", "dispatch"} =>
                  /\ G'.vtime_now = G.vtime_now
                  /\ G'.total_weight = G.total_weight
                  /\ \A u \in Tasks : task'[u].dsq_vtime = task[u].dsq_vtime
           /\ op = "enqueue" =>
                  /\ G'.vtime_now = G.vtime_now
                  /\ G'.total_weight = G.total_weight
           /\ \A u \in Tasks \ {t} : task'[u].dsq_vtime = task[u].dsq_vtime]_vars

\* A dispatch moved the waiting task B to a local queue after task A's
\* select_cpu or enqueue, and B's v_e, V and W are the initial ones.
C37_Witness ==
    /\ last.op = "dispatch"
    /\ task["B"].st = "local"
    /\ task["B"].dsq_vtime = 100
    /\ task["A"].st \in {"queued", "local"}
    /\ G.vtime_now = 100
    /\ G.total_weight = 2

\* C32 as stated: enable(p) immediately followed by disable(p) restores both
\* total_weight and vtime_now to the values they had before the enable.
C32_RoundTrip ==
    last.op = "enable_disable" =>
        /\ G.total_weight = last.W0
        /\ G.vtime_now = last.V0

\* C32 amended: enable(p) immediately followed by disable(p) restores
\* total_weight.  With l = V - v_e(p) the lag at the enable, the enable lowers
\* vtime_now to V1 = V - l / (W + w) and the disable, which divides the new lag
\* l1 = V1 - v_e(p) by W, leaves V1 + l1 / W when W > 0 and V1 when W = 0 (both
\* saturating): vtime_now is restored when l = 0, and in general it is not.
C32_RoundTripAmended ==
    last.op = "enable_disable" =>
        LET ve == IF last.ve0 = 0 THEN last.V0 ELSE last.ve0
            l  == LagOf(last.V0, ve)
            V1 == SatU64(last.V0 - TruncDiv(l, last.W0 + EffWeight(last.w)))
            l1 == LagOf(V1, ve)
        IN  /\ G.total_weight = last.W0
            /\ G.vtime_now = IF last.W0 > 0
                             THEN SatU64(V1 + TruncDiv(l1, last.W0))
                             ELSE V1
            /\ l = 0 => G.vtime_now = last.V0

\* A task 999880 behind V was enabled with weight 2 beside W = 10 and disabled
\* at once: total_weight is 10 again, vtime_now is not 1000000.
C32_Witness ==
    /\ last.op = "enable_disable"
    /\ last.V0 = 1000000
    /\ last.ve0 = 120
    /\ last.W0 = 10
    /\ last.w = 2
    /\ G.total_weight = 10
    /\ G.vtime_now # last.V0

\* C33: when the capacity source has changed and then stayed as it is while
\* the agent runs, then once the agent has completed 5 iterations of its main
\* loop since the change, cpu_capacity[c] is the new value for every CPU c and
\* max_capacity is their maximum.
C33_RefreshWithin5 ==
    (agent.pc = "loop" /\ sysfs.age >= 5) =>
        /\ cpu_capacity = sysfs.cap
        /\ G.max_capacity = MaxOfTable(sysfs.cap)

\* The capacity of CPU 0 dropped to 512; five iterations later the table and
\* max_capacity show it.
C33_Witness ==
    /\ agent.pc = "loop"
    /\ sysfs.age >= 5
    /\ sysfs.changes > 0
    /\ sysfs.cap[0] = 512
    /\ cpu_capacity[0] = 512
    /\ G.max_capacity = 512

\* C34: when enable, disable, set_weight and stopping handlers of different
\* tasks run concurrently on different CPUs, no update is lost: once all of
\* them have completed, total_weight is the sum of the weights of the enabled
\* tasks.
C34_NoLostUpdate ==
    (\A t \in Tasks : inflight[t].op = "none") =>
        G.total_weight = SumWeights(Enabled)

\* C35: no starvation across classes: when every CPU invokes dispatch again and
\* again and dispatched tasks run and stop, every task inserted into BIG or
\* LITTLE is eventually moved to some CPU's local queue, also while other tasks
\* keep being enqueued into the other queue and on a machine whose CPUs are all
\* of one class.
C35_NoStarvation ==
    \A t \in Tasks : (task[t].st = "queued") ~> (task[t].st = "local")

==============================================================================
